---- MODULE Spec2Model ----
(***************************************************************************)
(* A model of the GenLayer MCP server's contract generation engine          *)
(* (GenLayerContractGenerator) and of the Tool Layer built on it.           *)
(*                                                                         *)
(* JavaScript strings are TLA+ strings; Len, \o and SubSeq act on them      *)
(* character by character.  JavaScript values that are not strings are      *)
(* written as reserved strings that no modelled input spells:              *)
(*   undefined           the value of a missing property                    *)
(*   Inherited(k)        the member k that every object literal inherits    *)
(*                       from Object.prototype                             *)
(* A call that can throw returns [threw |-> BOOLEAN, value |-> string];     *)
(* when threw is TRUE, value is the message of the error.                   *)
(***************************************************************************)
EXTENDS Integers, Sequences, FiniteSets, TLC

VARIABLES
    op,        \* generator: name of the last generator function called
    arg,       \* generator: the arguments of that call
    out,       \* generator: [threw, value] returned by that call
    applied,   \* generator: requirements of the addLLMInteractions calls
               \*            applied, in order, to the code now in out
    tool,      \* Tool Layer: name of the last tool function called
    given,     \* Tool Layer: the parameter object the caller passed
    params,    \* Tool Layer: the caller's parameter object after the call
    result,    \* Tool Layer: [rejected, content, isError] of that call
    market,    \* generated market contract: the fields of the deployed
               \*            contract object
    call,      \* generated market contract: the last transaction, with the
               \*            fields before it, what it raised or returned
    payouts,   \* generated market contract: for each sender, how many of
               \*            its claim_winnings calls returned and their sum
    fetched,   \* generated web access methods: the last call, its inputs,
               \*            what the web and the LLM answered, and its end
    request,   \* handlers: the tools/call request being answered
    invoked,   \* handlers: the Tool Layer function called for it, or "none"
    response,  \* handlers: the envelope the handler answered with
    received,  \* handlers: the objects the Tool Layer was called with
    calls,     \* calls in flight: the calls received so far, each with its
               \*            arguments, its position and its local result
    script     \* publish script: its position, package.json on disk, its
               \*            two objects, the error caught and the exit code

genVars    == <<op, arg, out, applied>>
toolVars   == <<tool, given, params, result>>
marketVars == <<market, call, payouts>>
webVars    == <<fetched>>
handlerVars == <<request, invoked, response, received>>
callVars   == <<calls>>
publishVars == <<script>>
exceptGenVars  ==
    <<toolVars, marketVars, webVars, handlerVars, callVars, publishVars>>
exceptToolVars ==
    <<genVars, marketVars, webVars, handlerVars, callVars, publishVars>>
vars ==
    <<op, arg, out, applied, tool, given, params, result, market, call,
      payouts, fetched, request, invoked, response, received, calls, script>>

----------------------------------------------------------------------------
(* Bounds of the model                                                      *)

MaxFields == 2     \* longest storage_fields list drawn
MaxApply  == 2     \* longest chain of augmenter applications

----------------------------------------------------------------------------
(* JavaScript values and string primitives                                  *)

undefined == "<undefined>"

UpperChars == "ABCDEFGHIJKLMNOPQRSTUVWXYZ"
LowerChars == "abcdefghijklmnopqrstuvwxyz"
DigitChars == "0123456789"

CharAt(s, i) == SubSeq(s, i, i)

CharIn(c, chars) == \E i \in 1..Len(chars) : CharAt(chars, i) = c

IndexIn(c, chars) == CHOOSE i \in 1..Len(chars) : CharAt(chars, i) = c

\* String.prototype.toLowerCase, one character
LowerChar(c) ==
    IF CharIn(c, UpperChars) THEN CharAt(LowerChars, IndexIn(c, UpperChars))
    ELSE c

\* String.prototype.toLowerCase
RECURSIVE toLowerCase(_)
toLowerCase(s) ==
    IF Len(s) = 0 THEN ""
    ELSE LowerChar(CharAt(s, 1)) \o toLowerCase(SubSeq(s, 2, Len(s)))

\* String.prototype.startsWith
startsWith(s, prefix) ==
    /\ Len(s) >= Len(prefix)
    /\ SubSeq(s, 1, Len(prefix)) = prefix

IsWhiteSpace(c) == c \in {" ", "\n", "\t", "\r"}

\* String.prototype.trimEnd
RECURSIVE trimEnd(_)
trimEnd(s) ==
    IF Len(s) > 0 /\ IsWhiteSpace(CharAt(s, Len(s)))
    THEN trimEnd(SubSeq(s, 1, Len(s) - 1))
    ELSE s

\* String.prototype.trimStart
RECURSIVE trimStart(_)
trimStart(s) ==
    IF Len(s) > 0 /\ IsWhiteSpace(CharAt(s, 1))
    THEN trimStart(SubSeq(s, 2, Len(s)))
    ELSE s

\* String.prototype.trim
trim(s) == trimStart(trimEnd(s))

\* needle occurs in hay at position i
MatchAt(hay, needle, i) ==
    \/ Len(needle) = 0
    \/ /\ CharAt(hay, i) = CharAt(needle, 1)
       /\ SubSeq(hay, i, i + Len(needle) - 1) = needle

\* number of (possibly overlapping) occurrences of needle in hay
Count(hay, needle) ==
    IF Len(needle) = 0 THEN Len(hay) + 1
    ELSE LET first == CharAt(needle, 1)
             n == Len(needle)
         IN  Cardinality({i \in 1..(Len(hay) - n + 1) :
                            /\ SubSeq(hay, i, i) = first
                            /\ SubSeq(hay, i, i + n - 1) = needle})

Contains(hay, needle) == Count(hay, needle) > 0

\* String.prototype.indexOf(needle, from), 1-based; 0 when there is none
IndexFrom(hay, needle, from) ==
    LET n == Len(needle)
        first == IF n = 0 THEN "" ELSE CharAt(needle, 1)
        hits == {i \in from..(Len(hay) - n + 1) :
                    \/ n = 0
                    \/ /\ SubSeq(hay, i, i) = first
                       /\ SubSeq(hay, i, i + n - 1) = needle}
    IN  IF hits = {} THEN 0
        ELSE CHOOSE i \in hits : \A j \in hits : i <= j

\* the items occur in hay one after another, in the order of the sequence
RECURSIVE InOrder(_, _, _)
InOrder(hay, items, from) ==
    IF Len(items) = 0 THEN TRUE
    ELSE LET i == IndexFrom(hay, items[1], from)
         IN  /\ i > 0
             /\ InOrder(hay, Tail(items), i + Len(items[1]))

\* Array.prototype.join over a sequence of strings
RECURSIVE join(_, _)
join(items, sep) ==
    IF Len(items) = 0 THEN ""
    ELSE IF Len(items) = 1 THEN items[1]
    ELSE items[1] \o sep \o join(Tail(items), sep)

\* concatenation of a sequence of strings
RECURSIVE concat(_)
concat(items) ==
    IF Len(items) = 0 THEN "" ELSE items[1] \o concat(Tail(items))

\* The names every object literal inherits from Object.prototype: a lookup
\* obj[key] with one of these keys finds the inherited member when obj has
\* no own property of that name.
ObjectPrototypeKeys ==
    {"constructor", "__proto__", "hasOwnProperty", "isPrototypeOf",
     "propertyIsEnumerable", "toString", "toLocaleString", "valueOf",
     "__defineGetter__", "__defineSetter__", "__lookupGetter__",
     "__lookupSetter__"}

\* the inherited member, written as the text String() gives for it
Inherited(k) ==
    IF k = "__proto__" THEN "[object Object]"
    ELSE IF k = "constructor" THEN "function Object() { [native code] }"
    ELSE "function " \o k \o "() { [native code] }"

InheritedValues == {Inherited(k) : k \in ObjectPrototypeKeys}

IsString(v) == v # undefined /\ v \notin InheritedValues

\* JavaScript truthiness of a string, undefined or an object
Truthy(v) == v # undefined /\ v # ""

\* template-literal interpolation ${v}
Str(v) == IF v = undefined THEN "undefined" ELSE v

\* obj[key] for an object literal with the own properties of table
Lookup(table, key) ==
    IF key \in DOMAIN table THEN table[key]
    ELSE IF key \in ObjectPrototypeKeys THEN Inherited(key)
    ELSE undefined

Returned(v) == [threw |-> FALSE, value |-> v]
Thrown(msg) == [threw |-> TRUE, value |-> msg]

----------------------------------------------------------------------------
(* GenLayerContractGenerator: type mapping and default values               *)

typeMap ==
    [s \in {"string", "text", "integer", "int", "number", "boolean", "bool",
            "address", "list", "array", "dict", "dictionary", "map",
            "float", "decimal", "bytes", "timestamp"} |->
        CASE s \in {"string", "text"} -> "str"
          [] s \in {"integer", "int", "number", "timestamp"} -> "u256"
          [] s \in {"boolean", "bool"} -> "bool"
          [] s = "address" -> "Address"
          [] s \in {"list", "array"} -> "DynArray[str]"
          [] s \in {"dict", "dictionary", "map"} -> "TreeMap[str, str]"
          [] s \in {"float", "decimal"} -> "f64"
          [] s = "bytes" -> "bytes"]

\* return typeMap[type.toLowerCase()] || type
mapGenLayerType(type) ==
    LET found == Lookup(typeMap, toLowerCase(type))
    IN  IF Truthy(found) THEN found ELSE type

defaults ==
    [t \in {"str", "u256", "f64", "bool", "Address", "bytes"} |->
        CASE t = "str" -> "\"\""
          [] t = "u256" -> "u256(0)"
          [] t = "f64" -> "0.0"
          [] t = "bool" -> "False"
          [] t = "Address" ->
                "Address('0x0000000000000000000000000000000000000000')"
          [] t = "bytes" -> "b''"]

\* glType.startsWith is not a function when glType is not a string
getDefaultValue(glType) ==
    IF ~IsString(glType)
    THEN Thrown("glType.startsWith is not a function")
    ELSE IF startsWith(glType, "DynArray") THEN Returned(glType \o "()")
    ELSE IF startsWith(glType, "TreeMap") THEN Returned(glType \o "()")
    ELSE LET found == Lookup(defaults, glType)
         IN  Returned(IF Truthy(found) THEN found ELSE glType \o "()")

----------------------------------------------------------------------------
(* GenLayerContractGenerator.generateBaseContract                           *)
(* A field is [name, type, description]; description is undefined when the  *)
(* caller gave none.                                                        *)

BaseHeader(contractName) ==
    "# { \"Depends\": \"py-genlayer:test\" }\n" \o
    "from genlayer import *\n" \o
    "from genlayer.gl.vm import UserError\n" \o
    "import typing\n" \o
    "import json\n" \o
    "import re\n" \o
    "\n" \o
    "class " \o Str(contractName) \o "(gl.Contract):\n"

\* fields.forEach: one storage field declaration
FieldDeclaration(field) ==
    LET comment == IF Truthy(field.description)
                   THEN " # " \o field.description ELSE ""
    IN  "    " \o field.name \o ": " \o mapGenLayerType(field.type)
            \o comment \o "\n"

FieldDeclarations(fields) ==
    [i \in 1..Len(fields) |-> FieldDeclaration(fields[i])]

\* fields.map: one constructor parameter; the default value may throw
InitParam(field) ==
    LET glType == mapGenLayerType(field.type)
        defaultValue == getDefaultValue(glType)
    IN  IF defaultValue.threw THEN defaultValue
        ELSE Returned(field.name \o ": " \o glType \o " = "
                        \o defaultValue.value)

InitParams(fields) == [i \in 1..Len(fields) |-> InitParam(fields[i])]

\* fields.forEach: one constructor assignment
Assignment(field) ==
    "        self." \o field.name \o " = " \o field.name \o "\n"

Assignments(fields) == [i \in 1..Len(fields) |-> Assignment(fields[i])]

InfoMethod(contractName) ==
    "    @gl.public.view\n" \o
    "    def get_info(self) -> str:\n" \o
    "        return \"Intelligent Contract " \o Str(contractName)
        \o " running on GenLayer\"\n\n"

\* fields.forEach: one getter
Getter(field) ==
    "    @gl.public.view\n" \o
    "    def get_" \o field.name \o "(self) -> "
        \o mapGenLayerType(field.type) \o ":\n" \o
    "        return self." \o field.name \o "\n\n"

Getters(fields) == [i \in 1..Len(fields) |-> Getter(fields[i])]

generateBaseContract(contractName, fields) ==
    LET ps == InitParams(fields)
    IN  IF \E i \in 1..Len(fields) : ps[i].threw
        THEN ps[CHOOSE i \in 1..Len(fields) :
                    /\ ps[i].threw
                    /\ \A j \in 1..(i - 1) : ~ps[j].threw]
        ELSE Returned(
            BaseHeader(contractName) \o
            (IF Len(fields) > 0
             THEN concat(FieldDeclarations(fields)) \o "\n" ELSE "") \o
            "    def __init__(self" \o
            (IF Len(fields) > 0
             THEN ", " \o join([i \in 1..Len(fields) |-> ps[i].value], ", ")
             ELSE "") \o
            "):\n" \o
            (IF Len(fields) > 0
             THEN concat(Assignments(fields)) ELSE "        pass\n") \o
            "\n" \o
            InfoMethod(contractName) \o
            (IF Len(fields) > 0 THEN concat(Getters(fields)) ELSE ""))

----------------------------------------------------------------------------
(* GenLayerContractGenerator: the feature augmenters                        *)
(* The appended blocks are the source's literals with the lines between the *)
(* ones written here left out; every interpolation point, the first line    *)
(* and the last lines of each block are kept as they are.                   *)

llmMethods(methodRequirements) ==
    "\n    @gl.public.write\n" \o
    "    def process_with_llm(self, input_text: str, prompt_type: str = \"general\") -> str:\n" \o
    "        \"\"\"\n" \o
    "        Process input text using LLM capabilities with equivalence principle\n" \o
    "        Requirements: " \o
    Str(methodRequirements) \o
    "\n" \o
    "        \"\"\"\n" \o
    "        def llm_task() -> str:\n" \o
    "            if prompt_type == \"analysis\":\n" \o
    "                task = f\"\"\"Analyze the following text according to these requirements: " \o
    Str(methodRequirements) \o
    "\n" \o
    "            elif prompt_type == \"classification\":\n" \o
    "                task = f\"\"\"Classify the following text according to these requirements: " \o
    Str(methodRequirements) \o
    "\n" \o
    "            else:\n" \o
    "                task = f\"\"\"Process the following text according to these requirements: " \o
    Str(methodRequirements) \o
    "\n" \o
    "        processed_result = gl.eq_principle_strict_eq(llm_task)\n" \o
    "        return processed_result\n" \o
    "    \n" \o
    "    @gl.public.write\n" \o
    "    def analyze_sentiment(self, text: str) -> str:\n" \o
    "        result = gl.eq_principle_prompt_non_comparative(\n" \o
    "        )\n" \o
    "        return result\n" \o
    "    \n" \o
    "    @gl.public.write\n" \o
    "    def generate_response(self, user_input: str, context: str = \"\") -> str:\n" \o
    "        json_result = gl.eq_principle_strict_eq(generate_json_response)\n" \o
    "        response_data = json.loads(json_result)\n" \o
    "        return response_data[\"response\"]\n" \o
    "    \n"

\* a variant that leaves code alone when it already holds the block
addLLMInteractionsOnce(contractCode, methodRequirements) ==
    IF Contains(contractCode, trim(llmMethods(methodRequirements)))
    THEN contractCode
    ELSE trimEnd(contractCode) \o llmMethods(methodRequirements)

\* return contractCode.trimEnd() + llmMethods
addLLMInteractions(contractCode, methodRequirements) ==
    trimEnd(contractCode) \o llmMethods(methodRequirements)

webMethod(urlTemplate, processingLogic) ==
    "\n" \o
    "    @gl.public.write\n" \o
    "    def fetch_web_data(self, url: str = \"" \o Str(urlTemplate)
        \o "\", mode: str = \"text\") -> dict:\n" \o
    "        \"\"\"\n" \o
    "        URL: " \o Str(urlTemplate) \o "\n" \o
    "        Processing: " \o Str(processingLogic) \o "\n" \o
    "        \"\"\"\n" \o
    "                Process this web data according to: "
        \o Str(processingLogic) \o "\n" \o
    "    \n" \o
    "    @gl.public.write\n" \o
    "    def fetch_multiple_sources(self, urls: DynArray[str], processing_instruction: str = \""
        \o Str(processingLogic) \o "\") -> dict:\n" \o
    "    \n" \o
    "    @gl.public.write\n" \o
    "    def fetch_with_comparative_consensus(self, url: str, analysis_criteria: str = \""
        \o Str(processingLogic) \o "\") -> dict:\n" \o
    "                \"error\": \"Failed to parse consensus response as JSON\"\n" \o
    "            }\n" \o
    "    \n"

\* a variant that trims the code at both ends
addWebDataAccessTrimmed(contractCode, urlTemplate, processingLogic) ==
    trim(contractCode) \o webMethod(urlTemplate, processingLogic)

\* return contractCode.trimEnd() + webMethod
addWebDataAccess(contractCode, urlTemplate, processingLogic) ==
    trimEnd(contractCode) \o webMethod(urlTemplate, processingLogic)

----------------------------------------------------------------------------
(* GenLayerContractGenerator.addEquivalencePrinciple                        *)
(* A tolerance is the text JavaScript prints for the number, or undefined.  *)
(* methodName is taken to hold no character that is special in a regular    *)
(* expression.                                                              *)

\* tolerance || "default": the number 0 is falsy
ToleranceText(tolerance) ==
    IF tolerance = undefined \/ tolerance = "0" THEN "default" ELSE tolerance

validationComment(validationType, tolerance) ==
    "\n" \o
    "    # Equivalence Principle Validation (" \o Str(validationType) \o ")\n" \o
    "    # Tolerance: " \o ToleranceText(tolerance) \o "\n" \o
    "    # Validators will use this to determine if outputs are equivalent\n"

\* where [^)]* stops: the first ")" at or after position from, 0 when none
FirstClose(text, from) == IndexFrom(text, ")", from)

\* new RegExp("(def <methodName>\\([^)]*\\):)") matches at position i: the
\* last character of the match, 0 when there is no match at i
DefinitionEndAt(text, methodName, i) ==
    LET head == "def " \o Str(methodName) \o "("
        close == FirstClose(text, i + Len(head))
    IN  IF /\ i + Len(head) - 1 <= Len(text)
           /\ MatchAt(text, head, i)
           /\ close > 0
           /\ close < Len(text)
           /\ CharAt(text, close + 1) = ":"
        THEN close + 1
        ELSE 0

\* contractCode.replace(pattern, "$1" + validationComment): the leftmost
\* match is followed by the comment; code without a match comes back as is
addEquivalencePrinciple(contractCode, methodName, validationType, tolerance) ==
    IF contractCode = undefined
    THEN Thrown("Cannot read properties of undefined (reading 'replace')")
    ELSE LET starts == {i \in 1..Len(contractCode) :
                          DefinitionEndAt(contractCode, methodName, i) > 0}
         IN  IF starts = {} THEN Returned(contractCode)
             ELSE LET first == CHOOSE i \in starts : \A j \in starts : i <= j
                      end == DefinitionEndAt(contractCode, methodName, first)
                  IN  Returned(SubSeq(contractCode, 1, end)
                        \o validationComment(validationType, tolerance)
                        \o SubSeq(contractCode, end + 1, Len(contractCode)))

----------------------------------------------------------------------------
(* GenLayerContractGenerator: named templates and specialised generators    *)
(* Each body is the source's literal with lines left out between the ones   *)
(* written here; the class line, every interpolation point and the last    *)
(* line are kept.                                                           *)

generateDAOGovernance(contractName, customParams) ==
    "# { \"Depends\": \"py-genlayer:test\" }\n" \o
    "from genlayer import *\n" \o
    "from genlayer.gl.vm import UserError\n" \o
    "import typing\n" \o
    "import json\n" \o
    "\n" \o
    "class " \o Str(contractName) \o "(gl.Contract):\n" \o
    "    \"\"\"\n" \o
    "    Intelligent DAO Governance Contract with AI-powered proposal analysis\n" \o
    "    \"\"\"\n" \o
    "    total_members: u256\n" \o
    "    proposal_count: u256\n" \o
    "    members: TreeMap[Address, bool]\n" \o
    "    \n" \o
    "    def __init__(self):\n" \o
    "    @gl.public.write\n" \o
    "    def create_proposal(self, title: str, description: str) -> typing.Any:\n" \o
    "        return {\"proposal_id\": int(self.proposal_count), \"analysis\": analysis_result}\n"

generateContentModeration(contractName, customParams) ==
    "# { \"Depends\": \"py-genlayer:test\" }\n" \o
    "from genlayer import *\n" \o
    "from genlayer.gl.vm import UserError\n" \o
    "import typing\n" \o
    "import json\n" \o
    "\n" \o
    "class " \o Str(contractName) \o "(gl.Contract):\n" \o
    "    \"\"\"AI-powered content moderation system\"\"\"\n" \o
    "    flagged_content: TreeMap[str, dict]\n" \o
    "    content_counter: u256\n" \o
    "    \n" \o
    "    def __init__(self):\n" \o
    "    @gl.public.write\n" \o
    "    def moderate_content(self, content: str) -> typing.Any:\n" \o
    "        return {\"content_id\": int(self.content_counter), \"analysis\": result}\n"

generateSentimentTracker(contractName, customParams) ==
    "# { \"Depends\": \"py-genlayer:test\" }\n" \o
    "from genlayer import *\n" \o
    "from genlayer.gl.vm import UserError\n" \o
    "import typing\n" \o
    "\n" \o
    "class " \o Str(contractName) \o "(gl.Contract):\n" \o
    "    \"\"\"Advanced sentiment tracking system\"\"\"\n" \o
    "    sentiment_history: DynArray[dict]\n" \o
    "    analysis_count: u256\n" \o
    "    \n" \o
    "    def __init__(self):\n" \o
    "    @gl.public.write\n" \o
    "    def analyze_sentiment(self, text: str, topic: str = \"general\") -> typing.Any:\n" \o
    "        return {\"analysis_id\": int(self.analysis_count), \"result\": result, \"topic\": topic}\n"

generateMultiOracle(contractName, customParams) ==
    "# { \"Depends\": \"py-genlayer:test\" }\n" \o
    "from genlayer import *\n" \o
    "from genlayer.gl.vm import UserError\n" \o
    "import typing\n" \o
    "\n" \o
    "class " \o Str(contractName) \o "(gl.Contract):\n" \o
    "    \"\"\"Multi-source oracle with consensus mechanism\"\"\"\n" \o
    "    latest_data: TreeMap[str, dict]\n" \o
    "    update_count: u256\n" \o
    "    \n" \o
    "    def __init__(self):\n" \o
    "    @gl.public.write\n" \o
    "    def fetch_consensus_data(self, data_type: str, query: str) -> typing.Any:\n" \o
    "        return {\"data_type\": data_type, \"query\": query, \"result\": result, \"update_id\": int(self.update_count)}\n"

\* the case labels of generateAdvancedContractTemplate
NamedTemplates ==
    {"dao_governance", "content_moderation", "sentiment_tracker",
     "multi_oracle"}

\* a variant whose default branch rejects the tag
generateTemplateStrict(templateType, contractName, customParams) ==
    CASE templateType = "dao_governance" ->
            Returned(generateDAOGovernance(contractName, customParams))
      [] templateType = "content_moderation" ->
            Returned(generateContentModeration(contractName, customParams))
      [] templateType = "sentiment_tracker" ->
            Returned(generateSentimentTracker(contractName, customParams))
      [] templateType = "multi_oracle" ->
            Returned(generateMultiOracle(contractName, customParams))
      [] templateType = "basic" ->
            generateBaseContract(contractName, <<>>)
      [] OTHER -> Thrown("Unknown template type: " \o templateType)

\* switch (templateType): strict equality against the four case labels
generateAdvancedContractTemplate(templateType, contractName, customParams) ==
    CASE templateType = "dao_governance" ->
            Returned(generateDAOGovernance(contractName, customParams))
      [] templateType = "content_moderation" ->
            Returned(generateContentModeration(contractName, customParams))
      [] templateType = "sentiment_tracker" ->
            Returned(generateSentimentTracker(contractName, customParams))
      [] templateType = "multi_oracle" ->
            Returned(generateMultiOracle(contractName, customParams))
      [] OTHER -> generateBaseContract(contractName, <<>>)

\* metadataFields is accepted and not used
createVectorStore(storeName, description, metadataFields) ==
    "# { \"Depends\": \"py-genlayer:test\" }\n" \o
    "# { \"Depends\": \"py-lib-genlayermodelwrappers:test\" }\n" \o
    "\n" \o
    "class " \o Str(storeName) \o "(gl.Contract):\n" \o
    "    vector_store: VectorStore\n" \o
    "    def add_text(self, text: str, metadata: dict = None) -> str:\n" \o
    "        Description: " \o Str(description) \o "\n" \o
    "        return f\"Added text to " \o Str(storeName) \o "\"\n" \o
    "    def search_similar(self, query: str, top_k: int = 5) -> list:\n" \o
    "    def get_store_info(self) -> dict:\n" \o
    "            \"name\": \"" \o Str(storeName) \o "\",\n" \o
    "            \"description\": \"" \o Str(description) \o "\",\n" \o
    "            \"size\": self.vector_store.size()\n" \o
    "        }\n"

createPredictionMarket(marketName, description, resolutionCriteria, webSources) ==
    "# { \"Depends\": \"py-genlayer:test\" }\n" \o
    "\n" \o
    "class " \o Str(marketName) \o "(gl.Contract):\n" \o
    "    def place_bet(self, prediction: bool) -> str:\n" \o
    "    def resolve_market(self) -> str:\n" \o
    "        Resolution Criteria: " \o Str(resolutionCriteria) \o "\n" \o
    "        Web Sources: " \o join(webSources, ", ") \o "\n" \o
    "    def claim_winnings(self) -> u256:\n" \o
    "    def get_market_info(self) -> dict:\n" \o
    "            \"name\": \"" \o Str(marketName) \o "\",\n" \o
    "        }\n"

----------------------------------------------------------------------------
(* Tool Layer                                                               *)
(* A parameter object is a record of the tool's properties, a missing       *)
(* property having the value undefined; a property that holds an array or   *)
(* an object is Some(value), or undefinedObject when it is missing.  A      *)
(* call made with no object at all passes Missing("null") or                *)
(* Missing("undefined").  A tool call ends as                               *)
(*   [rejected |-> FALSE, content, isError]   the promise resolved          *)
(*   [rejected |-> TRUE,  content, isError]   the promise rejected, content *)
(*                                            being the error's message     *)
(* isError is FALSE where the code leaves it out.  The check mark and the   *)
(* bullet of the report texts are written [v] and [-], the code fence of    *)
(* three backquotes is written ~~~.                                         *)
(* A report text keeps its first line, every interpolation point and its    *)
(* last line; fixed lines between them may be left out.                     *)

undefinedObject == [defined |-> FALSE, value |-> <<>>]

Some(v) == [defined |-> TRUE, value |-> v]

Missing(what) == [missing |-> what]

IsMissing(p) == "missing" \in DOMAIN p

\* params.x on a params that is null or undefined
ReadOfMissing(p, property) ==
    "Cannot read properties of " \o p.missing
        \o " (reading '" \o property \o "')"

Resolved(text, err) == [rejected |-> FALSE, content |-> text, isError |-> err]
Rejected(msg) == [rejected |-> TRUE, content |-> msg, isError |-> FALSE]

MinRequirementsLength == 10
MinCriteriaLength == 20

DefaultWebSource == "https://api.coindesk.com/v1/bpi/currentprice.json"

DefaultUrlTemplate == "https://api.example.com/data"

IsUpper(c) == CharIn(c, UpperChars)
IsAlnum(c) == CharIn(c, LowerChars) \/ CharIn(c, UpperChars) \/ CharIn(c, DigitChars)

\* /^[A-Z][a-zA-Z0-9]*$/
IsPascalCase(s) ==
    /\ Len(s) >= 1
    /\ IsUpper(CharAt(s, 1))
    /\ \A i \in 2..Len(s) : IsAlnum(CharAt(s, i))

\* String.prototype.endsWith
endsWith(s, suffix) ==
    /\ Len(s) >= Len(suffix)
    /\ SubSeq(s, Len(s) - Len(suffix) + 1, Len(s)) = suffix

\* /^[A-Z][a-zA-Z0-9]*Market$/
IsMarketName(s) ==
    /\ Len(s) >= 1 + Len("Market")
    /\ IsUpper(CharAt(s, 1))
    /\ \A i \in 2..(Len(s) - Len("Market")) : IsAlnum(CharAt(s, i))
    /\ endsWith(s, "Market")

\* array || [], object || {}
OrEmpty(array) == IF array.defined THEN array.value ELSE <<>>

\* array?.length || 0
LengthOrZero(array) == IF array.defined THEN Len(array.value) ELSE 0

YesNo(flag) == IF flag THEN "Yes" ELSE "No"

\* a variant that applies the builder's fields and the augmenters to a
\* named template as well
IntelligentContractCodeComposed(p) ==
    LET base == IF Truthy(p.template_type) /\ p.template_type # "basic"
                THEN generateAdvancedContractTemplate(p.template_type,
                                                      p.contract_name, <<>>)
                ELSE generateBaseContract(p.contract_name,
                                          OrEmpty(p.storage_fields))
        withLLM == IF p.use_llm
                   THEN addLLMInteractions(base.value, p.requirements)
                   ELSE base.value
        withWeb == IF p.web_access
                   THEN addWebDataAccess(withLLM, DefaultUrlTemplate,
                                         p.requirements)
                   ELSE withLLM
    IN  IF base.threw THEN base ELSE Returned(withWeb)

\* the contract code of generateIntelligentContract: [threw, value]
\* a variant that appends the web block before the LLM block
IntelligentContractCodeWebFirst(p) ==
    IF Truthy(p.template_type) /\ p.template_type # "basic"
    THEN generateAdvancedContractTemplate(p.template_type, p.contract_name,
                                          <<>>)
    ELSE LET base == generateBaseContract(p.contract_name,
                                          OrEmpty(p.storage_fields))
             withWeb == IF p.web_access
                        THEN addWebDataAccess(base.value, DefaultUrlTemplate,
                                              p.requirements)
                        ELSE base.value
             withLLM == IF p.use_llm
                        THEN addLLMInteractions(withWeb, p.requirements)
                        ELSE withWeb
         IN  IF base.threw THEN base ELSE Returned(withLLM)

IntelligentContractCode(p) ==
    IF Truthy(p.template_type) /\ p.template_type # "basic"
    THEN generateAdvancedContractTemplate(p.template_type, p.contract_name,
                                          <<>>)
    ELSE LET base == generateBaseContract(p.contract_name,
                                          OrEmpty(p.storage_fields))
             withLLM == IF p.use_llm
                        THEN addLLMInteractions(base.value, p.requirements)
                        ELSE base.value
             withWeb == IF p.web_access
                        THEN addWebDataAccess(withLLM, DefaultUrlTemplate,
                                              p.requirements)
                        ELSE withLLM
         IN  IF base.threw THEN base ELSE Returned(withWeb)

IntelligentContractReport(p, contractCode) ==
    "# Generated Intelligent Contract: " \o p.contract_name \o "\n\n" \o
    "## Requirements\n" \o p.requirements \o "\n\n" \o
    "## Features\n" \o
    "- Template: "
        \o (IF Truthy(p.template_type) THEN p.template_type ELSE "basic")
        \o "\n" \o
    "- LLM Integration: " \o YesNo(p.use_llm) \o "\n" \o
    "- Web Access: " \o YesNo(p.web_access) \o "\n" \o
    "- Storage Fields: " \o ToString(LengthOrZero(p.storage_fields))
        \o "\n\n" \o
    "## Contract Code\n\n" \o
    "~~~python\n" \o contractCode \o "\n~~~\n\n" \o
    "## Usage Notes\n" \o
    "- Deploy this contract to GenLayer testnet or mainnet\n" \o
    "- All methods marked with @gl.public.view are read-only\n" \o
    "- Methods marked with @gl.public.write modify contract state\n" \o
    "- LLM methods use equivalence principles for consensus\n" \o
    "- Web data methods fetch real-time information\n\n" \o
    "## Next Steps\n" \o
    "1. Review the generated contract code\n" \o
    "2. Customize the business logic as needed\n" \o
    "3. Test on GenLayer Studio: https://studio.genlayer.com/\n" \o
    "4. Deploy to your preferred GenLayer network"

\* catch (error) of generateIntelligentContract
IntelligentContractCaught(message) ==
    Resolved("Error generating contract: " \o message
                \o "\n\nPlease check your parameters and try again.", TRUE)

GenLayerTools_generateIntelligentContract(p) ==
    IF IsMissing(p)
    THEN IntelligentContractCaught(ReadOfMissing(p, "contract_name"))
    ELSE IF ~Truthy(p.contract_name) \/ ~IsPascalCase(p.contract_name)
    THEN Resolved("Error: Contract name must be in PascalCase and start with a capital letter. Got: "
                    \o Str(p.contract_name), TRUE)
    ELSE IF \/ ~Truthy(p.requirements)
            \/ Len(trim(p.requirements)) < MinRequirementsLength
    THEN Resolved("Error: Requirements must be at least 10 characters long and describe what the contract should do.", TRUE)
    ELSE LET code == IntelligentContractCode(p)
         IN  IF code.threw THEN IntelligentContractCaught(code.value)
             ELSE Resolved(IntelligentContractReport(p, code.value), FALSE)

----------------------------------------------------------------------------
(* Tool Layer: prediction markets                                           *)

\* params.web_sources after the default is applied
SourcesOrDefault(sources) ==
    IF ~sources.defined \/ Len(sources.value) = 0
    THEN <<DefaultWebSource>> ELSE sources.value

Numbered(sources) ==
    [i \in 1..Len(sources) |-> ToString(i) \o ". " \o sources[i]]

OrText(v, text) == IF Truthy(v) THEN v ELSE text

PredictionMarketReport(p, sources, marketCode) ==
    "# Generated Prediction Market: " \o p.market_name \o "\n\n" \o
    "## Market Details\n" \o
    "- **Description**: " \o Str(p.description) \o "\n" \o
    "- **Category**: " \o OrText(p.category, "General") \o "\n" \o
    "- **Resolution Criteria**: " \o p.resolution_criteria \o "\n" \o
    "- **Resolution Deadline**: "
        \o OrText(p.resolution_deadline, "No specific deadline") \o "\n" \o
    "- **Data Sources**: " \o ToString(Len(sources)) \o " configured\n\n" \o
    "## Data Sources\n" \o join(Numbered(sources), "\n") \o "\n\n" \o
    "## Contract Code\n\n" \o
    "~~~python\n" \o marketCode \o "\n~~~\n\n" \o
    "## How It Works\n" \o
    "## Usage Example\n" \o
    "~~~python\n" \o
    "market = " \o p.market_name \o "()\n" \o
    "winnings = market.claim_winnings()\n" \o
    "~~~"

PredictionMarketCaught(message) ==
    Resolved("Error creating prediction market: " \o message
                \o "\n\nPlease verify your parameters and try again.", TRUE)

MarketNameError ==
    Resolved("Error: Market name should be in PascalCase and end with 'Market'. Example: BitcoinPriceMarket", TRUE)

CriteriaError ==
    Resolved("Error: Resolution criteria must be specific and detailed (at least 20 characters).", TRUE)

\* the request passes both validations of createPredictionMarket
MarketAccepted(p) ==
    /\ ~IsMissing(p)
    /\ p.market_name # undefined
    /\ IsMarketName(p.market_name)
    /\ Truthy(p.resolution_criteria)
    /\ Len(p.resolution_criteria) >= MinCriteriaLength

GenLayerTools_createPredictionMarket(p) ==
    IF IsMissing(p)
    THEN PredictionMarketCaught(ReadOfMissing(p, "market_name"))
    ELSE IF p.market_name = undefined
    THEN PredictionMarketCaught(ReadOfMissing(Missing("undefined"), "match"))
    ELSE IF ~IsMarketName(p.market_name) THEN MarketNameError
    ELSE IF \/ ~Truthy(p.resolution_criteria)
            \/ Len(p.resolution_criteria) < MinCriteriaLength
    THEN CriteriaError
    ELSE LET sources == SourcesOrDefault(p.web_sources)
             marketCode == createPredictionMarket(p.market_name,
                               p.description, p.resolution_criteria, sources)
         IN  Resolved(PredictionMarketReport(p, sources, marketCode), FALSE)

\* the caller's object after the call: params.web_sources = [...]
GenLayerTools_createPredictionMarket_paramsAppended(p) ==
    IF MarketAccepted(p)
    THEN [p EXCEPT !.web_sources =
                      Some(OrEmpty(p.web_sources) \o <<DefaultWebSource>>)]
    ELSE p

GenLayerTools_createPredictionMarket_params(p) ==
    IF MarketAccepted(p)
    THEN [p EXCEPT !.web_sources = Some(SourcesOrDefault(p.web_sources))]
    ELSE p

ModulePredictionMarketReport(p, marketCode) ==
    "# Generated Prediction Market: " \o p.market_name \o "\n\n" \o
    "## Market Details\n" \o
    "- **Category**: " \o OrText(p.category, "General") \o "\n" \o
    "- **Description**: " \o Str(p.description) \o "\n" \o
    "- **Resolution Criteria**: " \o p.resolution_criteria \o "\n" \o
    "- **Resolution Deadline**: "
        \o OrText(p.resolution_deadline, "No specific deadline") \o "\n" \o
    "- **Web Sources**: " \o ToString(LengthOrZero(p.web_sources))
        \o " configured\n\n" \o
    "## Contract Code\n\n" \o
    "~~~python\n" \o marketCode \o "\n~~~\n\n" \o
    "## Market Features\n" \o
    "## Usage Instructions\n" \o
    "## Next Steps\n" \o
    "4. Deploy to mainnet when ready"

ContractGenerationTools_createPredictionMarket(p) ==
    IF IsMissing(p)
    THEN Resolved("Error creating prediction market: "
                    \o ReadOfMissing(p, "market_name"), TRUE)
    ELSE IF p.market_name = undefined
    THEN Resolved("Error creating prediction market: "
                    \o ReadOfMissing(Missing("undefined"), "match"), TRUE)
    ELSE IF ~IsMarketName(p.market_name) THEN MarketNameError
    ELSE IF \/ ~Truthy(p.resolution_criteria)
            \/ Len(p.resolution_criteria) < MinCriteriaLength
    THEN CriteriaError
    ELSE LET marketCode == createPredictionMarket(p.market_name,
                               p.description, p.resolution_criteria,
                               OrEmpty(p.web_sources))
         IN  Resolved(ModulePredictionMarketReport(p, marketCode), FALSE)

----------------------------------------------------------------------------
(* Tool Layer: vector stores, templates, web access, placeholders           *)

GenLayerTools_createVectorStore(p) ==
    IF IsMissing(p)
    THEN Resolved("Error creating vector store: "
                    \o ReadOfMissing(p, "store_name"), TRUE)
    ELSE Resolved("Generated Vector Store: " \o Str(p.store_name) \o "\n\n"
                    \o createVectorStore(p.store_name, p.description,
                                         OrEmpty(p.metadata_fields)),
                  FALSE)

ContractGenerationTools_createVectorStore(p) ==
    IF IsMissing(p)
    THEN Resolved("Error creating vector store: "
                    \o ReadOfMissing(p, "store_name"), TRUE)
    ELSE Resolved(
            "# Generated Vector Store: " \o Str(p.store_name) \o "\n\n" \o
            "## Store Configuration\n" \o
            "- **Description**: " \o Str(p.description) \o "\n" \o
            "- **Metadata Fields**: "
                \o ToString(LengthOrZero(p.metadata_fields))
                \o " configured\n\n" \o
            "## Contract Code\n\n" \o
            "~~~python\n" \o
            createVectorStore(p.store_name, p.description,
                              OrEmpty(p.metadata_fields)) \o
            "\n~~~\n\n" \o
            "## Vector Store Features\n" \o
            "- **Semantic Search**: Built-in embedding and similarity search\n" \o
            "- **Metadata Support**: Rich metadata for enhanced filtering\n" \o
            "- **Gas Optimized**: Efficient storage and retrieval operations\n" \o
            "- **AI Integration**: Compatible with GenLayer's LLM features\n\n" \o
            "## Usage Instructions\n" \o
            "1. Deploy the vector store contract\n" \o
            "2. Add texts using add_text() method\n" \o
            "3. Search using search_similar() method\n" \o
            "4. Query store info with get_store_info()\n\n" \o
            "## Next Steps\n" \o
            "1. Configure metadata schema for your use case\n" \o
            "2. Test with sample data\n" \o
            "3. Integrate with your application\n" \o
            "4. Scale as needed",
            FALSE)

templateDescriptions ==
    [t \in NamedTemplates |->
        CASE t = "dao_governance" ->
                "DAO Governance Contract with AI-powered proposal analysis"
          [] t = "content_moderation" ->
                "Content Moderation System with AI-based filtering"
          [] t = "sentiment_tracker" ->
                "Sentiment Analysis and Tracking System"
          [] t = "multi_oracle" ->
                "Multi-Source Oracle with Consensus Mechanism"]

\* each feature list already mapped to its lines and joined with "\n"
templateFeatures ==
    [t \in NamedTemplates |->
        CASE t = "dao_governance" ->
                "[v] AI-powered proposal validation\n[v] Member management\n[v] Voting mechanisms\n[v] Execution thresholds"
          [] t = "content_moderation" ->
                "[v] AI content analysis\n[v] Customizable moderation rules\n[v] Severity classification\n[v] Flagged content tracking"
          [] t = "sentiment_tracker" ->
                "[v] Multi-dimensional sentiment analysis\n[v] Topic-based categorization\n[v] Historical tracking\n[v] Emotional breakdown"
          [] t = "multi_oracle" ->
                "[v] Multiple data source integration\n[v] Consensus mechanism\n[v] Confidence scoring\n[v] Data validation"]

templateNotes ==
    [t \in NamedTemplates |->
        CASE t = "dao_governance" ->
                "[-] Customize voting thresholds and periods\n[-] Add member management functions\n[-] Implement proposal execution logic"
          [] t = "content_moderation" ->
                "[-] Define your moderation rules\n[-] Adjust severity thresholds\n[-] Customize content categories"
          [] t = "sentiment_tracker" ->
                "[-] Configure sentiment categories\n[-] Set up topic tracking\n[-] Customize emotional analysis parameters"
          [] t = "multi_oracle" ->
                "[-] Configure data source URLs\n[-] Set consensus thresholds\n[-] Define data validation rules"]

\* return notes[templateType] || "..."
getTemplateNotes(templateType) ==
    OrText(Lookup(templateNotes, Str(templateType)),
           "[-] Review and customize as needed")

\* JSON.stringify(params.custom_parameters || {}, null, 2)
StringifyParameters(cp) ==
    IF cp = <<>> THEN "{}" ELSE "{\n  \"threshold\": \"5\"\n}"

\* features.map(...).join('\n'): features is the table's list, [] when the
\* tag has no entry, and a function without map when the tag names a
\* member inherited from Object.prototype
FeatureLines(templateType) ==
    LET features == Lookup(templateFeatures, Str(templateType))
    IN  IF features = undefined THEN Returned("")
        ELSE IF features \in InheritedValues
        THEN Thrown("features.map is not a function")
        ELSE Returned(features)

TemplateCaught(message) ==
    Resolved("Error generating template: " \o message, TRUE)

GenLayerTools_generateContractTemplate(p) ==
    IF IsMissing(p) THEN TemplateCaught(ReadOfMissing(p, "contract_name"))
    ELSE IF p.contract_name = undefined
    THEN TemplateCaught(ReadOfMissing(Missing("undefined"), "match"))
    ELSE IF ~IsPascalCase(p.contract_name)
    THEN Resolved("Error: Contract name must be in PascalCase. Got: "
                    \o p.contract_name, TRUE)
    ELSE LET code == generateAdvancedContractTemplate(p.template_type,
                        p.contract_name, OrEmpty(p.custom_parameters))
             lines == FeatureLines(p.template_type)
         IN  IF code.threw THEN TemplateCaught(code.value)
             ELSE IF lines.threw THEN TemplateCaught(lines.value)
             ELSE Resolved(
                "# " \o p.contract_name \o " - "
                    \o OrText(Lookup(templateDescriptions,
                                     Str(p.template_type)),
                              "Advanced Contract Template") \o "\n\n" \o
                "## Template: " \o Str(p.template_type) \o "\n\n" \o
                "## Features Included\n" \o lines.value \o "\n\n" \o
                "## Custom Parameters\n"
                    \o StringifyParameters(OrEmpty(p.custom_parameters)) \o "\n\n" \o
                "## Contract Code\n\n" \o
                "~~~python\n" \o code.value \o "\n~~~\n\n" \o
                "## Deployment Guide\n" \o
                "1. Review the generated contract code\n" \o
                "2. Customize parameters as needed\n" \o
                "3. Test in GenLayer Studio\n" \o
                "4. Deploy to your target network\n\n" \o
                "## Template-Specific Notes\n"
                    \o getTemplateNotes(p.template_type),
                FALSE)

moduleTemplateFeatures ==
    [t \in NamedTemplates |->
        CASE t = "dao_governance" ->
                "[-] AI-powered proposal analysis\n[-] Voting mechanisms\n[-] Member management\n[-] Treasury operations"
          [] t = "content_moderation" ->
                "[-] AI content analysis\n[-] Violation detection\n[-] Severity scoring\n[-] Appeal system"
          [] t = "sentiment_tracker" ->
                "[-] Real-time sentiment analysis\n[-] Historical tracking\n[-] Trend analysis\n[-] Alert system"
          [] t = "multi_oracle" ->
                "[-] Multi-source data aggregation\n[-] Consensus mechanisms\n[-] Data validation\n[-] Reliability scoring"]

moduleTemplateNotes ==
    [t \in NamedTemplates |->
        CASE t = "dao_governance" ->
                "Configure voting thresholds and member requirements according to your DAO structure."
          [] t = "content_moderation" ->
                "Adjust moderation strictness based on your community guidelines and tolerance levels."
          [] t = "sentiment_tracker" ->
                "Define relevant categories and topics for your specific use case and audience."
          [] t = "multi_oracle" ->
                "Set up reliable data sources and configure consensus parameters for accuracy."]

\* no validation of contract_name comes before the generator call
ContractGenerationTools_generateContractTemplate(p) ==
    IF IsMissing(p) THEN TemplateCaught(ReadOfMissing(p, "template_type"))
    ELSE LET code == generateAdvancedContractTemplate(p.template_type,
                        p.contract_name, OrEmpty(p.custom_parameters))
         IN  IF code.threw THEN TemplateCaught(code.value)
             ELSE Resolved(
                "# Generated " \o Str(p.template_type) \o " Template: "
                    \o Str(p.contract_name) \o "\n\n" \o
                "## Template Features\n"
                    \o OrText(Lookup(moduleTemplateFeatures,
                                     Str(p.template_type)),
                              "[-] Advanced smart contract features")
                    \o "\n\n" \o
                "## Contract Code\n\n" \o
                "~~~python\n" \o code.value \o "\n~~~\n\n" \o
                "## Usage Instructions\n" \o
                "1. Review the generated template code\n" \o
                "2. Customize parameters and business logic\n" \o
                "3. Test on GenLayer Studio\n" \o
                "4. Deploy when ready\n\n" \o
                "## Template-Specific Notes\n"
                    \o OrText(Lookup(moduleTemplateNotes,
                                     Str(p.template_type)),
                              "Customize the template according to your specific requirements."),
                FALSE)

\* contractCode.trimEnd() on a contract_code that is missing
GenLayerTools_addWebDataAccess(p) ==
    IF IsMissing(p)
    THEN Resolved("Error adding web data access: "
                    \o ReadOfMissing(p, "contract_code"), TRUE)
    ELSE IF p.contract_code = undefined
    THEN Resolved("Error adding web data access: "
                    \o ReadOfMissing(Missing("undefined"), "trimEnd"), TRUE)
    ELSE Resolved("Updated contract with web data access capabilities\n\n"
                    \o addWebDataAccess(p.contract_code, p.url_template,
                                        p.data_processing_logic),
                  FALSE)

\* The three placeholder tools have no try block: reading a property of a
\* missing params object rejects the promise the async function returns.
generateContractInteractionExamples(p) ==
    IF IsMissing(p) THEN Rejected(ReadOfMissing(p, "interaction_method"))
    ELSE Resolved("# Contract Interaction Examples for "
                    \o Str(p.interaction_method) \o "\n\n"
                    \o "Comprehensive contract interaction examples will be implemented in the next version.\n\n"
                    \o "This will include:\n"
                    \o "- Reading from contracts\n"
                    \o "- Writing to contracts  \n"
                    \o "- Event handling\n"
                    \o "- Error management\n"
                    \o "- Gas optimization\n\n"
                    \o "Full implementation coming soon with practical examples for all interaction methods.",
                  FALSE)

generateTestingFramework(p) ==
    IF IsMissing(p) THEN Rejected(ReadOfMissing(p, "test_framework"))
    ELSE Resolved("# Testing Framework for "
                    \o Str(p.test_framework) \o "\n\n"
                    \o "Comprehensive testing framework generation will be implemented in the next version.\n\n"
                    \o "This will include:\n"
                    \o "- Unit testing patterns\n"
                    \o "- Integration test setup\n"
                    \o "- Mock configurations\n"
                    \o "- Test utilities\n"
                    \o "- CI/CD integration\n\n"
                    \o "Full implementation coming soon with complete testing solutions.",
                  FALSE)

generateProjectBoilerplate(p) ==
    IF IsMissing(p) THEN Rejected(ReadOfMissing(p, "project_name"))
    ELSE Resolved("# Project Boilerplate for "
                    \o Str(p.project_name) \o "\n\n"
                    \o "Complete project boilerplate generation will be implemented in the next version.\n\n"
                    \o "This will include:\n"
                    \o "- Full project structure\n"
                    \o "- Contract templates\n"
                    \o "- Frontend integration\n"
                    \o "- Testing setup\n"
                    \o "- Deployment scripts\n"
                    \o "- Documentation\n\n"
                    \o "Full implementation coming soon with complete project scaffolding.",
                  FALSE)

----------------------------------------------------------------------------
(* Tool Layer: equivalence principle                                        *)

EquivalenceHeadline(p) ==
    "Updated contract with Equivalence Principle ("
        \o Str(p.validation_type) \o ") for method: "
        \o Str(p.method_name) \o "\n\n"

GenLayerTools_addEquivalencePrinciple(p) ==
    IF IsMissing(p)
    THEN Resolved("Error adding equivalence principle: "
                    \o ReadOfMissing(p, "contract_code"), TRUE)
    ELSE LET updatedCode == addEquivalencePrinciple(p.contract_code,
                                p.method_name, p.validation_type, p.tolerance)
         IN  IF updatedCode.threw
             THEN Resolved("Error adding equivalence principle: "
                             \o updatedCode.value, TRUE)
             ELSE Resolved(EquivalenceHeadline(p) \o updatedCode.value, FALSE)

----------------------------------------------------------------------------
(* Tool Layer: concept explanations                                         *)
(* include_examples is "true", "false" or undefined.                        *)

Concepts ==
    {"equivalence_principle", "optimistic_democracy", "llm_integration",
     "web_data_access", "vector_stores", "intelligent_contracts", "genvm",
     "genlayer_types", "best_practices"}

\* Object.keys(explanations).join(', ')
ConceptList ==
    "equivalence_principle, optimistic_democracy, llm_integration, web_data_access, vector_stores, intelligent_contracts, genvm, genlayer_types, best_practices"

\* const explanations: each text is cut after its first sentence
explanations ==
    [c \in Concepts |->
        CASE c = "equivalence_principle" ->
                [basic |->
                    "The Equivalence Principle allows validators to reach consensus on non-deterministic operations by defining what outputs should be considered 'equivalent'.",
                 intermediate |->
                    "The Equivalence Principle is GenLayer's mechanism for handling non-deterministic operations (like LLM outputs) in a decentralized way.",
                 advanced |->
                    "The Equivalence Principle is fundamental to GenLayer's Optimistic Democracy consensus."]
          [] c = "optimistic_democracy" ->
                [basic |->
                    "GenLayer's consensus mechanism that combines traditional blockchain validation with AI-powered decision making.",
                 intermediate |->
                    "Optimistic Democracy extends Delegated Proof of Stake with AI integration.",
                 advanced |->
                    "Optimistic Democracy leverages Condorcet's Jury Theorem for AI-native consensus."]
          [] c = "llm_integration" ->
                [basic |->
                    "GenLayer contracts can directly call Large Language Models for text processing and decision making.",
                 intermediate |->
                    "LLM integration in GenLayer allows contracts to process natural language, analyze text, and make decisions based on unstructured data.",
                 advanced |->
                    "LLM integration transforms smart contracts into truly intelligent systems."]
          [] c = "web_data_access" ->
                [basic |->
                    "GenLayer contracts can fetch real-time data from the internet without external oracles.",
                 intermediate |->
                    "Web data access via gl.get_webpage() allows contracts to fetch live information in text or HTML format.",
                 advanced |->
                    "Native web connectivity revolutionizes blockchain data access."]
          [] c = "vector_stores" ->
                [basic |->
                    "Vector stores enable semantic search and similarity matching within smart contracts.",
                 intermediate |->
                    "GenLayer's vector store implementation uses embedding models (like SentenceTransformer) to convert text into numerical vectors.",
                 advanced |->
                    "Vector stores implement high-dimensional similarity search using neural embeddings."]
          [] c = "intelligent_contracts" ->
                [basic |->
                    "Smart contracts enhanced with AI capabilities, natural language processing, and web connectivity.",
                 intermediate |->
                    "Intelligent Contracts extend smart contracts with LLM integration, web data access, and non-deterministic operations.",
                 advanced |->
                    "Intelligent Contracts represent the evolution of programmable money to programmable intelligence."]
          [] c = "genvm" ->
                [basic |->
                    "GenLayer's virtual machine that executes Intelligent Contracts written in Python.",
                 intermediate |->
                    "GenVM is GenLayer's execution environment that supports both deterministic and non-deterministic operations.",
                 advanced |->
                    "GenVM represents a paradigm shift in blockchain execution environments."]
          [] c = "genlayer_types" ->
                [basic |->
                    "Special data types used in GenLayer contracts like u256, Address, TreeMap, and DynArray.",
                 intermediate |->
                    "GenLayer uses specific types optimized for blockchain storage and operations: u256 for large integers, Address for blockchain addresses, TreeMap for key-value storage, DynArray for dynamic arrays, and specialized types for AI operations.",
                 advanced |->
                    "GenLayer's type system is designed for blockchain efficiency and AI integration."]
          [] c = "best_practices" ->
                [basic |->
                    "Guidelines for writing secure and efficient Intelligent Contracts.",
                 intermediate |->
                    "Best practices include proper type annotations, secure prompt engineering, efficient storage patterns, error handling for web requests, and appropriate use of equivalence principles for non-deterministic operations.",
                 advanced |->
                    "Comprehensive best practices cover: 1) Security - prompt injection prevention, input validation, access controls; 2) Efficiency - gas optimization, storage patterns, AI model selection; 3) Reliability - error handling, fallback mechanisms, consensus design; 4) Maintainability - modular design, documentation, testing strategies."]]

\* const examples: the heading, the first title and the closing fence of
\* each text
examples ==
    [c \in Concepts \ {"optimistic_democracy"} |->
        CASE c = "equivalence_principle" ->
                "## Code Examples\n\n### Comparative Equivalence\n~~~python\n~~~"
          [] c = "llm_integration" ->
                "## Code Examples\n\n### Basic LLM Call\n~~~python\n~~~"
          [] c = "web_data_access" ->
                "## Code Examples\n\n### Fetching Web Data\n~~~python\n~~~"
          [] c = "vector_stores" ->
                "## Code Examples\n\n### Basic Vector Store Setup\n~~~python\n~~~"
          [] c = "intelligent_contracts" ->
                "## Code Examples\n\n### Complete Intelligent Contract\n~~~python\n~~~"
          [] c = "genvm" ->
                "## Code Examples\n\n### GenVM Contract Structure\n~~~python\n~~~"
          [] c = "genlayer_types" ->
                "## Code Examples\n\n### GenLayer Type Usage\n~~~python\n~~~"
          [] c = "best_practices" ->
                "## Code Examples\n\n### Security Best Practices\n~~~python\n~~~"]

\* const related
related ==
    [c \in Concepts |->
        CASE c = "equivalence_principle" ->
                "[-] Optimistic Democracy\n[-] LLM Integration\n[-] Consensus Mechanisms"
          [] c = "optimistic_democracy" ->
                "[-] Equivalence Principle\n[-] Consensus Mechanisms\n[-] Finality"
          [] c = "llm_integration" ->
                "[-] Equivalence Principle\n[-] Intelligent Contracts\n[-] Best Practices"
          [] c = "web_data_access" ->
                "[-] Intelligent Contracts\n[-] Multi Oracle\n[-] Best Practices"
          [] c = "vector_stores" ->
                "[-] LLM Integration\n[-] Intelligent Contracts\n[-] GenLayer Types"
          [] c = "intelligent_contracts" ->
                "[-] LLM Integration\n[-] Web Data Access\n[-] GenVM"
          [] c = "genvm" ->
                "[-] Intelligent Contracts\n[-] GenLayer Types\n[-] Best Practices"
          [] c = "genlayer_types" ->
                "[-] GenVM\n[-] Best Practices\n[-] Intelligent Contracts"
          [] c = "best_practices" ->
                "[-] Security\n[-] LLM Integration\n[-] GenLayer Types"]

\* String.prototype.toUpperCase, one character
UpperChar(c) ==
    IF CharIn(c, LowerChars) THEN CharAt(UpperChars, IndexIn(c, LowerChars))
    ELSE c

\* \w
IsWordChar(c) == IsAlnum(c) \/ c = "_"

\* concept.replace(/_/g, ' ')
RECURSIVE SpacesForUnderscores(_)
SpacesForUnderscores(s) ==
    IF Len(s) = 0 THEN ""
    ELSE (IF CharAt(s, 1) = "_" THEN " " ELSE CharAt(s, 1))
            \o SpacesForUnderscores(SubSeq(s, 2, Len(s)))

\* text.replace(/\b\w/g, l => l.toUpperCase()), done from position i on
RECURSIVE CapitalizeWordsFrom(_, _)
CapitalizeWordsFrom(s, i) ==
    IF i > Len(s) THEN ""
    ELSE LET c == CharAt(s, i)
             starts == IsWordChar(c)
                        /\ (i = 1 \/ ~IsWordChar(CharAt(s, i - 1)))
         IN  (IF starts THEN UpperChar(c) ELSE c)
                \o CapitalizeWordsFrom(s, i + 1)

ConceptTitle(concept) ==
    CapitalizeWordsFrom(SpacesForUnderscores(concept), 1)

\* level.charAt(0).toUpperCase() + level.slice(1)
LevelTitle(level) ==
    IF Len(level) = 0 THEN ""
    ELSE UpperChar(CharAt(level, 1)) \o SubSeq(level, 2, Len(level))

\* return examples[concept] || ""
getConceptExamples(concept) == OrText(Lookup(examples, concept), "")

\* return related[concept] || "..."
getRelatedConcepts(concept) ==
    OrText(Lookup(related, concept),
           "[-] Check GenLayer documentation for more concepts")

\* explanations[concept][level] printed by the template literal; a concept
\* that names an inherited member finds a function or Object.prototype, on
\* which no drawn level names a property
ExplanationText(concept, level) ==
    IF concept \in Concepts
    THEN Str(Lookup(explanations[concept], level))
    ELSE "undefined"

ConceptCaught(message) ==
    Resolved("Error explaining concept: " \o message, TRUE)

GenLayerTools_explainGenLayerConcepts(p) ==
    IF IsMissing(p) THEN ConceptCaught(ReadOfMissing(p, "concept"))
    ELSE LET concept == p.concept
             level == OrText(p.detail_level, "intermediate")
             includeExamples == p.include_examples # "false"
         IN  IF concept \notin Concepts \cup ObjectPrototypeKeys
             THEN Resolved("Error: Unknown concept '" \o Str(concept)
                             \o "'. Available concepts: " \o ConceptList,
                           TRUE)
             ELSE Resolved(
                "# GenLayer Concept: " \o ConceptTitle(concept) \o "\n\n" \o
                "## " \o LevelTitle(level) \o " Explanation\n\n" \o
                ExplanationText(concept, level) \o "\n\n" \o
                (IF includeExamples THEN getConceptExamples(concept)
                 ELSE "") \o
                "\n## Related Concepts\n" \o
                getRelatedConcepts(concept) \o "\n\n" \o
                "## Learn More\n" \o
                "- [GenLayer Documentation](https://docs.genlayer.com/)\n" \o
                "- [GenLayer Studio](https://studio.genlayer.com/)\n" \o
                "- [Intelligent Contracts Guide](https://docs.genlayer.com/developers/intelligent-contracts/introduction)",
                FALSE)

----------------------------------------------------------------------------
(* Inputs of the generator                                                  *)

\* abstract type tags drawn for mapGenLayerType
TypeTags ==
    {"string", "STRING", "Text", "integer", "int", "number", "timestamp",
     "float", "decimal", "boolean", "Bool", "address", "list", "array",
     "dict", "dictionary", "map", "bytes",
     "CustomType", "u256", "DynArray[u256]", "TreeMap[str, u256]",
     "toString", "constructor", "Constructor", "__proto__"}

\* concrete type tokens drawn for getDefaultValue: everything mapGenLayerType
\* returns, and tokens around the prefixes and inherited names
ConcreteTypes ==
    {mapGenLayerType(t) : t \in TypeTags} \cup
    {"", "valueOf", "hasOwnProperty", "DynArray", "TreeMapX", "dynarray"}

ContractNames == {"TestContract", "Foo"}

Field(n, t, d) == [name |-> n, type |-> t, description |-> d]

FieldPool ==
    {Field("data", "string", "Test data"),
     Field("count", "Integer", undefined),
     Field("items", "list", ""),
     Field("info", "text", undefined),
     Field("owner", "CustomType", undefined),
     Field("kind", "constructor", undefined),
     Field("label", "toString", undefined)}

FieldLists == UNION {[1..n -> FieldPool] : n \in 0..MaxFields}

TemplateTags ==
    {"dao_governance", "content_moderation", "sentiment_tracker",
     "multi_oracle", "basic", "nonexistent_tag", "", "constructor",
     "DAO_GOVERNANCE"}

CustomParams == {<<>>, [threshold |-> "5"]}

RequirementTexts == {"Store data", "A simple storage contract"}

UrlTemplates == {"https://api.example.com/data"}

CodeSamples ==
    {"", "class A(gl.Contract):\n    pass\n\n\n", "  \n\t",
     "\n    total: u256\n\n"}

----------------------------------------------------------------------------
(* SecurityValidator.  The texts drawn carry no control characters, so the  *)
(* replace() calls that strip them leave the text as it is; a URL drawn     *)
(* has a host of letters, digits, dots and hyphens, which new URL accepts.  *)

IdentifierLimit == 100
TextLimit == 10000

IsLower(c) == CharIn(c, LowerChars)

\* VALIDATION_PATTERNS.camelCase: /^[a-z][a-zA-Z0-9]*$/
IsCamelCase(s) ==
    /\ Len(s) >= 1
    /\ IsLower(CharAt(s, 1))
    /\ \A i \in 2..Len(s) : IsAlnum(CharAt(s, i))

\* VALIDATION_PATTERNS.methodName: /^[a-z][a-zA-Z0-9_]*$/
IsMethodName(s) ==
    /\ Len(s) >= 1
    /\ IsLower(CharAt(s, 1))
    /\ \A i \in 2..Len(s) : IsWordChar(CharAt(s, i))

reservedWords ==
    {"eval", "exec", "import", "open", "file", "input", "raw_input",
     "compile", "__import__", "globals", "locals", "vars", "dir",
     "hasattr", "getattr", "setattr", "delattr", "callable"}

Valid == [isValid |-> TRUE, error |-> undefined]
Invalid(error) == [isValid |-> FALSE, error |-> error]

FollowsConvention(trimmed, type) ==
    CASE type = "contract" -> IsPascalCase(trimmed)
      [] type = "method"   -> IsMethodName(trimmed)
      [] type = "variable" -> IsCamelCase(trimmed)

validateIdentifier(identifier, type) ==
    IF ~Truthy(identifier)
    THEN Invalid(type \o " name must be a non-empty string")
    ELSE LET trimmed == trim(identifier)
         IN  IF Len(trimmed) = 0
             THEN Invalid(type \o " name cannot be empty")
             ELSE IF Len(trimmed) > IdentifierLimit
             THEN Invalid(type \o " name too long (max 100 characters)")
             ELSE IF type \notin {"contract", "method", "variable"}
             THEN Invalid("Unknown identifier type")
             ELSE IF ~FollowsConvention(trimmed, type)
             THEN Invalid(type \o " name must follow proper naming convention")
             ELSE IF toLowerCase(trimmed) \in reservedWords
             THEN Invalid(type \o " name cannot be a reserved or dangerous word")
             ELSE Valid

\* sanitizeTextInput(input), maxLength at its default
sanitizeTextInput(input) ==
    IF ~Truthy(input) THEN ""
    ELSE IF Len(input) > TextLimit THEN SubSeq(input, 1, TextLimit)
    ELSE input

\* the dangerous patterns, each head\s+tail (gap 1) or head\s*tail (gap 0),
\* matched without regard to case
dangerousPatterns ==
    <<[head |-> "import",     gap |-> 1, tail |-> "os",
       warning |-> "Removed OS import (potentially dangerous)"],
      [head |-> "import",     gap |-> 1, tail |-> "subprocess",
       warning |-> "Removed subprocess import (potentially dangerous)"],
      [head |-> "import",     gap |-> 1, tail |-> "sys",
       warning |-> "Removed sys import (potentially dangerous)"],
      [head |-> "exec",       gap |-> 0, tail |-> "(",
       warning |-> "Removed exec() call (potentially dangerous)"],
      [head |-> "eval",       gap |-> 0, tail |-> "(",
       warning |-> "Removed eval() call (potentially dangerous)"],
      [head |-> "__import__", gap |-> 0, tail |-> "(",
       warning |-> "Removed __import__() call (potentially dangerous)"],
      [head |-> "open",       gap |-> 0, tail |-> "(",
       warning |-> "Removed file open() call (potentially dangerous)"],
      [head |-> "file",       gap |-> 0, tail |-> "(",
       warning |-> "Removed file() call (potentially dangerous)"]>>

\* the first position at or after i that holds no white space
RECURSIVE SkipSpace(_, _)
SkipSpace(text, i) ==
    IF i <= Len(text) /\ IsWhiteSpace(CharAt(text, i))
    THEN SkipSpace(text, i + 1)
    ELSE i

\* needle, in lower case, occurs in hay at position i whatever the case
MatchAtAnyCase(hay, needle, i) ==
    /\ i >= 1
    /\ i + Len(needle) - 1 <= Len(hay)
    /\ Len(needle) > 0 => LowerChar(CharAt(hay, i)) = CharAt(needle, 1)
    /\ toLowerCase(SubSeq(hay, i, i + Len(needle) - 1)) = needle

\* the position after the match of pattern p that starts at i; 0 if none
DangerEnd(text, i, p) ==
    IF ~MatchAtAnyCase(text, p.head, i)
    THEN 0
    ELSE LET j == i + Len(p.head)
             k == SkipSpace(text, j)
         IN  IF k - j >= p.gap /\ MatchAtAnyCase(text, p.tail, k)
             THEN k + Len(p.tail)
             ELSE 0

\* sanitizedCode.replace(pattern, '# REMOVED FOR SECURITY'), from position i
RECURSIVE RemoveFrom(_, _, _)
RemoveFrom(text, i, p) ==
    LET starts == {m \in i..Len(text) : DangerEnd(text, m, p) > 0}
    IN  IF starts = {} THEN SubSeq(text, i, Len(text))
        ELSE LET m == CHOOSE m \in starts : \A n \in starts : m <= n
             IN  SubSeq(text, i, m - 1) \o "# REMOVED FOR SECURITY"
                    \o RemoveFrom(text, DangerEnd(text, m, p), p)

RECURSIVE RemoveAll(_, _)
RemoveAll(text, patterns) ==
    IF Len(patterns) = 0 THEN text
    ELSE RemoveAll(RemoveFrom(text, 1, Head(patterns)), Tail(patterns))

sanitizeContractCode(code) ==
    IF ~Truthy(code) THEN "" ELSE RemoveAll(code, dangerousPatterns)

\* warnings.push(warning) of the loop over the dangerous patterns: a pattern
\* is tested on the code as the patterns before it have left it
RECURSIVE RemoveWarnings(_, _)
RemoveWarnings(text, patterns) ==
    IF Len(patterns) = 0 THEN <<>>
    ELSE (IF \E m \in 1..Len(text) : DangerEnd(text, m, Head(patterns)) > 0
          THEN <<Head(patterns).warning>> ELSE <<>>)
            \o RemoveWarnings(RemoveFrom(text, 1, Head(patterns)),
                              Tail(patterns))

\* the shell metacharacters looked for; the grave accent, which no text
\* drawn holds, is left out
shellPatterns == <<";", "|", "&", "$", "$(">>

RECURSIVE ShellWarnings(_, _)
ShellWarnings(text, patterns) ==
    IF Len(patterns) = 0 THEN <<>>
    ELSE (IF Contains(text, Head(patterns))
          THEN <<"Potential shell metacharacter detected: " \o Head(patterns)>>
          ELSE <<>>)
            \o ShellWarnings(text, Tail(patterns))

\* the warnings of sanitizeContractCode(code)
sanitizeContractCodeWarnings(code) ==
    IF ~Truthy(code) THEN <<"Empty or invalid code provided">>
    ELSE RemoveWarnings(code, dangerousPatterns)
            \o ShellWarnings(sanitizeContractCode(code), shellPatterns)

scriptPatterns ==
    {"<script", "javascript:", "onload=", "onerror=", "onclick=",
     "onmouseover="}

\* the SQL patterns on a text without backslashes: a quote followed on its
\* line by -- or #, or = or : followed by two quotes
HasSqlPattern(text) ==
    \/ \E i \in 1..Len(text) :
          /\ CharAt(text, i) = "'"
          /\ \E j \in (i + 1)..Len(text) :
                /\ CharAt(text, j) = "#" \/ MatchAt(text, "--", j)
                /\ \A k \in i..j : CharAt(text, k) # "\n"
    \/ \E i \in 1..Len(text) :
          /\ CharAt(text, i) \in {"=", ":"}
          /\ MatchAt(text, "''", SkipSpace(text, i + 1))

\* the warnings of sanitizeTextInput(input), maxLength at its default
sanitizeTextInputWarnings(input) ==
    IF ~Truthy(input) THEN <<"Empty or invalid input provided">>
    ELSE LET sanitizedText == sanitizeTextInput(input)
         IN  (IF Len(input) > TextLimit
              THEN <<"Input truncated to 10000 characters">> ELSE <<>>)
             \o (IF \E q \in scriptPatterns :
                        \E i \in 1..Len(sanitizedText) :
                            MatchAtAnyCase(sanitizedText, q, i)
                  THEN <<"Potential script injection detected in input">>
                  ELSE <<>>)
             \o (IF HasSqlPattern(sanitizedText)
                  THEN <<"Potential SQL injection pattern detected in input">>
                  ELSE <<>>)

UrlHostLimit == 256
UrlSuffixLimit == 6

\* [-a-zA-Z0-9@:%._\+~#=]
IsUrlHostChar(c) == IsAlnum(c) \/ CharIn(c, "-@:%._+~#=")

\* [a-zA-Z0-9()]
IsUrlSuffixChar(c) == IsAlnum(c) \/ CharIn(c, "()")

\* [-a-zA-Z0-9()@:%_\+.~#?&//=]
IsUrlTailChar(c) == IsAlnum(c) \/ CharIn(c, "-()@:%_+.~#?&/=")

\* \b between positions i and i + 1
WordBoundary(s, i) ==
    (i >= 1 /\ i <= Len(s) /\ IsWordChar(CharAt(s, i)))
        # (i + 1 <= Len(s) /\ IsWordChar(CharAt(s, i + 1)))

\* the length of the scheme with its ://, 0 when it is not http or https
SchemeLength(s) ==
    IF startsWith(s, "https://") THEN Len("https://")
    ELSE IF startsWith(s, "http://") THEN Len("http://")
    ELSE 0

\* VALIDATION_PATTERNS.validUrl
IsValidUrl(s) ==
    /\ SchemeLength(s) > 0
    /\ \E from \in {SchemeLength(s) + 1}
                     \cup (IF MatchAt(s, "www.", SchemeLength(s) + 1)
                                /\ Len(s) >= SchemeLength(s) + 4
                           THEN {SchemeLength(s) + 5} ELSE {}) :
         \E dot \in (from + 1)..Len(s), n \in 1..UrlSuffixLimit :
            /\ dot - from <= UrlHostLimit
            /\ CharAt(s, dot) = "."
            /\ dot + n <= Len(s)
            /\ \A i \in from..(dot - 1) : IsUrlHostChar(CharAt(s, i))
            /\ \A i \in (dot + 1)..(dot + n) : IsUrlSuffixChar(CharAt(s, i))
            /\ WordBoundary(s, dot + n)
            /\ \A i \in (dot + n + 1)..Len(s) : IsUrlTailChar(CharAt(s, i))

\* the position after the host: the first of / ? # after the scheme, or the
\* end of the text
HostEnd(s) ==
    LET ends == {i \in (SchemeLength(s) + 1)..Len(s) :
                    CharAt(s, i) \in {"/", "?", "#"}}
    IN  IF ends = {} THEN Len(s) + 1
        ELSE CHOOSE i \in ends : \A j \in ends : i <= j

\* new URL(s).hostname
Hostname(s) == toLowerCase(SubSeq(s, SchemeLength(s) + 1, HostEnd(s) - 1))

\* new URL(s).toString(): the host in lower case, the empty path as /
UrlToString(s) ==
    SubSeq(s, 1, SchemeLength(s)) \o Hostname(s)
        \o (IF HostEnd(s) > Len(s) \/ CharAt(s, HostEnd(s)) # "/"
            THEN "/" ELSE "")
        \o SubSeq(s, HostEnd(s), Len(s))

maliciousPatterns ==
    {"javascript:", "data:", "vbscript:", "file:", "ftp:", "<script",
     "onload=", "onerror="}

suspiciousHosts == {"localhost", "127.0.0.1", "0.0.0.0", "::1"}

\* validateUrl(url) where production says process.env.NODE_ENV is
\* 'production'
validateUrl(url, production) ==
    IF ~Truthy(url)
    THEN [isValid |-> FALSE, sanitizedUrl |-> undefined,
          error |-> "URL must be a non-empty string"]
    ELSE LET trimmedUrl == trim(url)
         IN  IF ~IsValidUrl(trimmedUrl)
             THEN [isValid |-> FALSE, sanitizedUrl |-> undefined,
                   error |-> "Invalid URL format"]
             ELSE IF \E m \in maliciousPatterns :
                        \E i \in 1..Len(trimmedUrl) :
                            MatchAtAnyCase(trimmedUrl, m, i)
             THEN [isValid |-> FALSE, sanitizedUrl |-> undefined,
                   error |-> "URL contains potentially malicious content"]
             ELSE IF production /\ Hostname(trimmedUrl) \in suspiciousHosts
             THEN [isValid |-> FALSE, sanitizedUrl |-> undefined,
                   error |-> "Localhost URLs not allowed in production"]
             ELSE [isValid |-> TRUE, sanitizedUrl |-> UrlToString(trimmedUrl),
                   error |-> undefined]

\* the properties whose values are arrays or objects, and those whose values
\* are booleans
ArrayProperties ==
    {"storage_fields", "web_sources", "metadata_fields", "custom_parameters"}
BooleanProperties == {"use_llm", "web_access"}

\* the entry is not among Object.entries(params)
IsAbsent(key, value) ==
    IF key \in ArrayProperties THEN ~value.defined
    ELSE IF key \in BooleanProperties THEN FALSE
    ELSE value = undefined

\* typeof value === 'string'
IsStringValue(key) ==
    key \notin ArrayProperties \cup BooleanProperties
                \cup {"include_examples", "tolerance"}

nameTypeOf(key) ==
    IF Contains(key, "contract") THEN "contract"
    ELSE IF Contains(key, "method") THEN "method"
    ELSE "variable"

\* what the loop body of validateToolInput does with one entry:
\* [error, value], error "" when the entry is accepted
validateEntry(key, value, production) ==
    IF Contains(key, "url") /\ IsStringValue(key)
    THEN LET urlValidation == validateUrl(value, production)
         IN  IF ~urlValidation.isValid
             THEN [error |-> "Invalid URL in " \o key \o ": "
                                \o urlValidation.error,
                   value |-> undefined]
             ELSE [error |-> "", value |-> urlValidation.sanitizedUrl]
    ELSE IF Contains(key, "code") /\ IsStringValue(key)
    THEN [error |-> "", value |-> sanitizeContractCode(value)]
    ELSE IF Contains(key, "name") /\ IsStringValue(key)
    THEN LET nameValidation == validateIdentifier(value, nameTypeOf(key))
         IN  IF ~nameValidation.isValid
             THEN [error |-> "Invalid " \o nameTypeOf(key) \o " name in "
                                \o key \o ": " \o nameValidation.error,
                   value |-> undefined]
             ELSE [error |-> "", value |-> trim(value)]
    ELSE IF IsStringValue(key)
    THEN [error |-> "", value |-> sanitizeTextInput(value)]
    ELSE [error |-> "", value |-> value]

\* warnings.push(...) of the loop body for one entry
entryWarnings(key, value) ==
    IF Contains(key, "url") /\ IsStringValue(key) THEN <<>>
    ELSE IF Contains(key, "code") /\ IsStringValue(key)
    THEN sanitizeContractCodeWarnings(value)
    ELSE IF Contains(key, "name") /\ IsStringValue(key) THEN <<>>
    ELSE IF IsStringValue(key) THEN sanitizeTextInputWarnings(value)
    ELSE <<>>

\* the properties of each tool's parameter object, in the order of the
\* tool's input schema
toolProperties ==
    [generate_intelligent_contract |->
        <<"contract_name", "requirements", "use_llm", "web_access",
          "storage_fields", "template_type">>,
     add_equivalence_principle |->
        <<"contract_code", "method_name", "validation_type", "tolerance">>,
     create_vector_store |-> <<"store_name", "description", "metadata_fields">>,
     add_web_data_access |->
        <<"contract_code", "url_template", "data_processing_logic">>,
     create_prediction_market |->
        <<"market_name", "description", "resolution_criteria", "web_sources",
          "resolution_deadline", "category">>,
     generate_contract_template |->
        <<"template_type", "contract_name", "custom_parameters">>,
     explain_genlayer_concepts |->
        <<"concept", "include_examples", "detail_level">>,
     generate_contract_interaction_examples |-> <<"interaction_method">>,
     generate_testing_framework |-> <<"test_framework">>,
     generate_project_boilerplate |-> <<"project_name">>]

\* Object.entries(params): the properties present, in order
RECURSIVE Present(_, _)
Present(args, keys) ==
    IF Len(keys) = 0 THEN <<>>
    ELSE IF Head(keys) \in DOMAIN args
            /\ ~IsAbsent(Head(keys), args[Head(keys)])
    THEN <<Head(keys)>> \o Present(args, Tail(keys))
    ELSE Present(args, Tail(keys))

entries(toolName, args) ==
    IF toolName \in DOMAIN toolProperties
    THEN Present(args, toolProperties[toolName])
    ELSE <<>>

\* errors.push(...) of the loop, in order
RECURSIVE EntryErrors(_, _, _)
EntryErrors(args, keys, production) ==
    IF Len(keys) = 0 THEN <<>>
    ELSE LET e == validateEntry(Head(keys), args[Head(keys)], production)
         IN  (IF e.error = "" THEN <<>> ELSE <<e.error>>)
                \o EntryErrors(args, Tail(keys), production)

\* warnings.push(...) of the loop, in order
RECURSIVE EntryWarnings(_, _)
EntryWarnings(args, keys) ==
    IF Len(keys) = 0 THEN <<>>
    ELSE entryWarnings(Head(keys), args[Head(keys)])
            \o EntryWarnings(args, Tail(keys))

\* sanitizedParams is undefinedObject where the code returns none
validateToolInput(toolName, args, production) ==
    IF IsMissing(args)
    THEN [isValid |-> FALSE, sanitizedParams |-> undefinedObject,
          errors |-> <<"Parameters must be a valid object">>,
          warnings |-> <<>>]
    ELSE LET keys == entries(toolName, args)
             errors == EntryErrors(args, keys, production)
             present == {keys[i] : i \in 1..Len(keys)}
         IN  [isValid |-> Len(errors) = 0,
              sanitizedParams |->
                 IF Len(errors) = 0
                 THEN Some([k \in DOMAIN args |->
                              IF k \in present
                              THEN validateEntry(k, args[k], production).value
                              ELSE args[k]])
                 ELSE undefinedObject,
              errors |-> errors,
              warnings |-> EntryWarnings(args, keys)]

----------------------------------------------------------------------------
(* The publish script for GitHub Packages (src/unnamed/part_006)            *)
(* package.json on disk is a text: the object it denotes and its layout.    *)

\* a publishConfig property: absent, or a registry and an access
NoPublishConfig == [defined |-> FALSE, registry |-> "", access |-> ""]

PublishConfig(registry, access) ==
    [defined |-> TRUE, registry |-> registry, access |-> access]

\* packageJson.publishConfig = { registry: ..., access: 'public' }
GitHubPublishConfig == PublishConfig("https://npm.pkg.github.com/", "public")

\* JSON.parse(fs.readFileSync('package.json', 'utf8'))
JSONparse(text) == text.object

\* JSON.stringify(object, null, 2): two spaces, no final newline
JSONstringify(object) == [object |-> object, layout |-> "two spaces"]

\* const originalPackageJson = { ...packageJson }: a copy of the properties
Spread(object) == [k \in DOMAIN object |-> object[k]]

\* the package.json files a run may find on disk
PackageVersions == {"1.0.0", "1.0.1"}

PackageConfigs ==
    {NoPublishConfig, GitHubPublishConfig,
     PublishConfig("https://registry.npmjs.org/", "public")}

PackageLayouts == {"two spaces", "two spaces and a final newline", "tabs"}

PackageFiles ==
    {[object |-> [name |-> "genlayer-mcp-server", version |-> v,
                  publishConfig |-> c],
      layout |-> l] :
        v \in PackageVersions, c \in PackageConfigs, l \in PackageLayouts}

\* what execSync('npm publish --ignore-scripts') may do: return, or throw an
\* error with one of these messages
PublishErrors ==
    {"Command failed: npm publish --ignore-scripts",
     "npm ERR! 409 Conflict: version already exists",
     "npm ERR! code ENEEDAUTH"}

NoError == ""

\* the package.json of the repository
RepositoryFile ==
    [object |-> [name |-> "genlayer-mcp-server", version |-> "1.0.0",
                 publishConfig |-> NoPublishConfig],
     layout |-> "two spaces and a final newline"]

\* the script before its first run
NotStarted ==
    [pc |-> "not started",
     file |-> RepositoryFile,
     started |-> RepositoryFile,
     packageJson |-> undefinedObject,
     originalPackageJson |-> undefinedObject,
     error |-> NoError,
     published |-> FALSE,
     exitCode |-> -1]

----------------------------------------------------------------------------
(* Generator specification: a caller calls one generator function, may      *)
(* apply the augmenters to the code it returned, and drops the result       *)
(* before the next call.  The generator keeps no state between calls.       *)

NoCall == [none |-> TRUE]

\* the senders of the transactions to the generated market contract
Addresses == {"0xA", "0xB"}

\* no claim_winnings call has returned yet
NothingPaid == [a \in Addresses |-> [claims |-> 0, total |-> 0]]
NoResult == [rejected |-> FALSE, content |-> "", isError |-> FALSE]
Fresh(code) == [base |-> code, ops |-> <<>>]

GenInit ==
    /\ op = "init"
    /\ arg = NoCall
    /\ out = Returned("")
    /\ applied = Fresh("")
    /\ tool = "init"
    /\ given = NoCall
    /\ params = NoCall
    /\ result = NoResult
    /\ market = NoCall
    /\ call = NoCall
    /\ payouts = NothingPaid
    /\ fetched = NoCall
    /\ request = NoCall
    /\ invoked = "none"
    /\ received = <<>>
    /\ response = [faulted |-> FALSE, fault |-> "",
                   content |-> <<[type |-> "text", text |-> ""]>>,
                   isError |-> FALSE]
    /\ calls = <<>>
    /\ script = NotStarted

MapType ==
    \E s \in TypeTags :
        /\ op = "init"
        /\ op' = "mapGenLayerType"
        /\ arg' = [type |-> s]
        /\ out' = Returned(mapGenLayerType(s))
        /\ applied' = Fresh("")
        /\ UNCHANGED exceptGenVars

DefaultValue ==
    \E t \in ConcreteTypes :
        /\ op = "init"
        /\ op' = "getDefaultValue"
        /\ arg' = [glType |-> t]
        /\ out' = getDefaultValue(t)
        /\ applied' = Fresh("")
        /\ UNCHANGED exceptGenVars

GenerateBase ==
    \E n \in ContractNames, F \in FieldLists :
        /\ op = "init"
        /\ op' = "generateBaseContract"
        /\ arg' = [contractName |-> n, fields |-> F]
        /\ out' = generateBaseContract(n, F)
        /\ applied' = Fresh(out'.value)
        /\ UNCHANGED exceptGenVars

GenerateTemplate ==
    \E tag \in TemplateTags, n \in ContractNames, cp \in CustomParams :
        /\ op = "init"
        /\ op' = "generateAdvancedContractTemplate"
        /\ arg' = [templateType |-> tag, contractName |-> n,
                   customParams |-> cp]
        /\ out' = generateAdvancedContractTemplate(tag, n, cp)
        /\ applied' = Fresh(out'.value)
        /\ UNCHANGED exceptGenVars

\* a caller hands code of its own to the augmenters
GivenCode ==
    \E c \in CodeSamples :
        /\ op = "init"
        /\ op' = "code"
        /\ arg' = [contractCode |-> c]
        /\ out' = Returned(c)
        /\ applied' = Fresh(c)
        /\ UNCHANGED exceptGenVars

IsCode ==
    /\ op \in {"code", "generateBaseContract",
               "generateAdvancedContractTemplate",
               "addLLMInteractions", "addWebDataAccess"}
    /\ ~out.threw

AddLLM ==
    \E r \in RequirementTexts :
        /\ IsCode
        /\ Len(applied.ops) < MaxApply
        /\ op' = "addLLMInteractions"
        /\ arg' = [contractCode |-> out.value, methodRequirements |-> r]
        /\ out' = Returned(addLLMInteractions(out.value, r))
        /\ applied' = [applied EXCEPT
                         !.ops = Append(@, [fn |-> "llm", text |-> r])]
        /\ UNCHANGED exceptGenVars

AddWeb ==
    \E u \in UrlTemplates, r \in RequirementTexts :
        /\ IsCode
        /\ Len(applied.ops) < MaxApply
        /\ op' = "addWebDataAccess"
        /\ arg' = [contractCode |-> out.value, urlTemplate |-> u,
                   processingLogic |-> r]
        /\ out' = Returned(addWebDataAccess(out.value, u, r))
        /\ applied' = [applied EXCEPT
                         !.ops = Append(@, [fn |-> "web", text |-> r])]
        /\ UNCHANGED exceptGenVars

Discard ==
    /\ op # "init"
    /\ op' = "init"
    /\ arg' = NoCall
    /\ out' = Returned("")
    /\ applied' = Fresh("")
    /\ UNCHANGED exceptGenVars

GenNext ==
    \/ MapType
    \/ DefaultValue
    \/ GenerateBase
    \/ GenerateTemplate
    \/ GivenCode
    \/ AddLLM
    \/ AddWeb
    \/ Discard

SpecGen == GenInit /\ [][GenNext]_vars

----------------------------------------------------------------------------
(* Inputs of the Tool Layer                                                 *)

NoParams == {Missing("null"), Missing("undefined")}

ToolContractNames ==
    {undefined, "", "TestContract", "invalid_name", "foo", "Foo1"}

\* lengths after trim(): 0, 9, 9, 10, 25
ToolRequirements ==
    {undefined, "Too short", "  Too short   ", "0123456789",
     "A simple storage contract"}

ToolFieldPool ==
    {Field("data", "string", "Test data"),
     Field("info", "text", undefined),
     Field("kind", "constructor", undefined)}

ToolFieldLists ==
    {undefinedObject} \cup
    {Some(F) : F \in UNION {[1..n -> ToolFieldPool] : n \in 0..MaxFields}}

ToolTemplateTags ==
    {undefined, "basic", "dao_governance", "multi_oracle", "unknown_tag",
     "constructor"}

MarketNames ==
    {undefined, "Market", "XMarket", "BitcoinPriceMarket", "bitcoinMarket",
     "BitcoinPrice", "Bitcoin_Market", "MarketPlace"}

\* lengths 0, 9, 19, 20, 57
CriteriaTexts ==
    {undefined, "", "Too short", "Price above 100k $.", "Price above 100k USD",
     "Bitcoin price exceeds $100,000 USD on any major exchange."}

WebSourceLists ==
    {undefinedObject, Some(<<>>),
     Some(<<"https://api.coinbase.com/v2/prices/BTC-USD/spot">>),
     Some(<<"https://api.coinbase.com/v2/prices/BTC-USD/spot",
            "https://api.kraken.com/0/public/Ticker">>)}

Descriptions == {undefined, "Will Bitcoin reach 100k?"}

StoreNames == {undefined, "DocumentStore", "invalid_name", "store"}

MetadataFieldLists ==
    {undefinedObject, Some(<<>>),
     Some(<<[name |-> "category", type |-> "string"]>>)}

IntelligentContractParams ==
    [contract_name : ToolContractNames, requirements : ToolRequirements,
     use_llm : BOOLEAN, web_access : BOOLEAN,
     storage_fields : ToolFieldLists,
     template_type : {undefined, "basic", "dao_governance", "constructor"}]

PredictionMarketParams ==
    [market_name : MarketNames, description : Descriptions,
     resolution_criteria : CriteriaTexts, web_sources : WebSourceLists,
     resolution_deadline : {undefined, "2025-12-31"},
     category : {undefined, "crypto"}]

VectorStoreParams ==
    [store_name : StoreNames, description : Descriptions,
     metadata_fields : MetadataFieldLists]

ContractTemplateParams ==
    [template_type : ToolTemplateTags, contract_name : ToolContractNames,
     custom_parameters : {undefinedObject} \cup {Some(cp) : cp \in CustomParams}]

WebDataAccessParams ==
    [contract_code : {undefined} \cup CodeSamples,
     url_template : {undefined} \cup UrlTemplates,
     data_processing_logic : {undefined, "Extract the latest price"}]

\* contracts with the method defined with a return annotation, without
\* one, twice, and not at all
EquivalenceCodes ==
    {undefined,
     "\nclass TestContract(gl.Contract):\n    def test_method(self, data: str) -> str:\n        return data\n",
     "\nclass TestContract(gl.Contract):\n    def test_method(self, data: str):\n        return data\n",
     "\nclass TestContract(gl.Contract):\n    def test_method(self) -> None:\n        pass\n    def test_method(self):\n        pass\n",
     "\nclass TestContract(gl.Contract):\n    def analyze_method(self, text: str) -> str:\n        return text\n",
     "class A(gl.Contract):\n    pass\n"}

EquivalenceParams ==
    [contract_code : EquivalenceCodes,
     method_name : {undefined, "test_method", "analyze_method"},
     validation_type : {"comparative", "non_comparative"},
     tolerance : {undefined, "0", "5", "0.05"}]

ConceptParams ==
    [concept : Concepts \cup {undefined, "", "invalid_concept", "constructor",
                              "__proto__", "toString", "consensus_mechanisms"},
     include_examples : {undefined, "true", "false"},
     detail_level : {undefined, "basic", "intermediate", "advanced",
                     "expert"}]

InteractionExamplesParams ==
    [interaction_method : {undefined, "read", "write"}]

TestingFrameworkParams ==
    [test_framework : {undefined, "jest", "pytest"}]

ProjectBoilerplateParams ==
    [project_name : {undefined, "my-genlayer-app"}]

----------------------------------------------------------------------------
(* The guides that are selected by one parameter: the functions of the      *)
(* module classes that look the parameter up in an object literal of        *)
(* texts, and the selector values that toolDefinitions advertises for       *)
(* them.  Each text is cut after its first line.                            *)

\* const typeExplanations
typeExplanations ==
    [primitive_types |-> "# GenLayer Primitive Types",
     collection_types |-> "# GenLayer Collection Types",
     custom_types |-> "# GenLayer Custom Types",
     storage_restrictions |-> "# GenLayer Storage Restrictions",
     type_conversions |-> "# GenLayer Type Conversions",
     all_types |-> "# Complete GenLayer Type System"]

\* the object literal reads params.<property> in its first text
Selected(p, property, caught, table, selector, unknown) ==
    IF IsMissing(p)
    THEN Resolved(caught \o ReadOfMissing(p, property), TRUE)
    ELSE LET text == Lookup(table, p[selector])
         IN  IF ~Truthy(text)
             THEN Resolved("Error: Unknown " \o unknown[1] \o " '"
                             \o Str(p[selector]) \o "'. Available "
                             \o unknown[2], TRUE)
             ELSE Resolved(text, FALSE)

TypesAndStorageTools_explainGenLayerTypes(p) ==
    Selected(p, "include_examples", "Error explaining GenLayer types: ",
             typeExplanations, "type_category",
             <<"type category",
               "categories: primitive_types, collection_types, custom_types, storage_restrictions, type_conversions, all_types">>)

\* const storageGuides
storageGuides ==
    [storage_basics |-> "# GenLayer Storage Basics",
     dynarray_usage |-> "# DynArray Usage Patterns",
     treemap_usage |-> "# TreeMap Usage Patterns",
     storage_optimization |-> "# Storage Optimization Techniques",
     storage_best_practices |-> "# GenLayer Storage Best Practices"]

TypesAndStorageTools_explainStoragePatterns(p) ==
    Selected(p, "include_examples", "Error explaining storage patterns: ",
             storageGuides, "storage_topic",
             <<"storage topic",
               "topics: storage_basics, dynarray_usage, treemap_usage, custom_storage_types, storage_optimization, storage_patterns, storage_best_practices">>)

\* const debugGuides
debugGuides ==
    [contract_debugging |-> "# Contract Debugging in GenLayer",
     transaction_debugging |-> "# Transaction Debugging",
     consensus_debugging |-> "# Consensus Debugging",
     studio_debugging |-> "# GenLayer Studio Debugging",
     cli_debugging |-> "# CLI Debugging Tools",
     testing_strategies |-> "# Testing Strategies for GenLayer Contracts"]

DeploymentAndDebuggingTools_generateDebuggingGuide(p) ==
    Selected(p, "include_code_examples", "Error generating debugging guide: ",
             debugGuides, "debug_topic",
             <<"debug topic",
               "topics: contract_debugging, transaction_debugging, consensus_debugging, studio_debugging, cli_debugging, testing_strategies">>)

\* const integrations
integrations ==
    [basic_setup |-> "# GenLayerJS Basic Setup",
     contract_interaction |-> "# Contract Interaction with GenLayerJS",
     transaction_monitoring |-> "# Transaction Monitoring",
     event_subscription |-> "# Event Subscription",
     error_handling |-> "# Error Handling",
     complete_example |-> "# Complete GenLayerJS Application Example"]

InteractionAndIntegrationTools_generateGenLayerJSIntegration(p) ==
    Selected(p, "framework", "Error generating GenLayerJS integration: ",
             integrations, "integration_type",
             <<"integration type",
               "types: basic_setup, contract_interaction, transaction_monitoring, event_subscription, error_handling, complete_example">>)

\* const scripts
scripts ==
    [typescript |-> "// GenLayer Contract Deployment Script (TypeScript)",
     python |-> "#!/usr/bin/env python3",
     cli_command |-> "# GenLayer CLI Deployment Commands",
     deploy_config |-> "# GenLayer Deployment Configuration"]

\* the report around the script; constructor_args and deployment_options
\* are absent from the objects drawn
DeploymentAndDebuggingTools_generateDeploymentScript(p) ==
    LET r == Selected(p, "network_target",
                      "Error generating deployment script: ",
                      scripts, "script_type",
                      <<"script type",
                        "types: typescript, python, cli_command, deploy_config">>)
    IN  IF r.isError THEN r
        ELSE Resolved(
               "# GenLayer Deployment Script\n\n" \o r.content \o "\n\n" \o
               "## Constructor Arguments:\nNo constructor arguments\n\n" \o
               "## Deployment Options:\n" \o
               "- **Network**: " \o OrText(p.network_target, "localnet")
                 \o "\n" \o
               "- **Gas Limit**: 1000000\n" \o
               "- **Wait for Confirmation**: Yes\n" \o
               "- **Verify Deployment**: Yes\n\n" \o
               "## Next Steps:\n" \o
               "5. Deploy to mainnet when ready",
               FALSE)

\* the enum of each selector property in toolDefinitions
selectorEnums ==
    [concept |->
        {"equivalence_principle", "optimistic_democracy", "llm_integration",
         "web_data_access", "vector_stores", "consensus_mechanisms",
         "intelligent_contracts", "genvm", "genlayer_types",
         "best_practices"},
     type_category |->
        {"primitive_types", "collection_types", "custom_types",
         "calldata_types", "storage_restrictions", "type_conversions",
         "all_types"},
     storage_topic |->
        {"storage_basics", "dynarray_usage", "treemap_usage",
         "custom_storage_types", "storage_optimization", "storage_patterns",
         "storage_best_practices"},
     script_type |-> {"typescript", "python", "cli_command", "deploy_config"},
     debug_topic |->
        {"contract_debugging", "transaction_debugging", "consensus_debugging",
         "llm_debugging", "web_access_debugging", "studio_debugging",
         "cli_debugging", "testing_strategies"},
     integration_type |->
        {"basic_setup", "contract_interaction", "transaction_monitoring",
         "account_management", "event_subscription", "error_handling",
         "complete_example"}]

\* the function each selector property belongs to
selectorFunctions ==
    [concept |-> "GenLayerTools.explainGenLayerConcepts",
     type_category |-> "TypesAndStorageTools.explainGenLayerTypes",
     storage_topic |-> "TypesAndStorageTools.explainStoragePatterns",
     script_type |-> "DeploymentAndDebuggingTools.generateDeploymentScript",
     debug_topic |-> "DeploymentAndDebuggingTools.generateDebuggingGuide",
     integration_type |->
        "InteractionAndIntegrationTools.generateGenLayerJSIntegration"]

\* the objects drawn for the selected guides
TypesParams ==
    [type_category : selectorEnums.type_category \cup {undefined, "enums"},
     include_examples : {undefined, "true"}]

StorageParams ==
    [storage_topic : selectorEnums.storage_topic \cup {undefined, "caching"},
     include_examples : {undefined, "true"}]

DebuggingParams ==
    [debug_topic : selectorEnums.debug_topic \cup {undefined, "gas_debugging"},
     include_code_examples : {undefined, "true"}]

IntegrationParams ==
    [integration_type :
        selectorEnums.integration_type \cup {undefined, "wallet_connect"},
     framework : {undefined, "react"}]

DeploymentParams ==
    [script_type : selectorEnums.script_type \cup {undefined, "bash"},
     contract_path : {"contracts/my_contract.py"},
     network_target : {undefined, "testnet_asimov"}]

----------------------------------------------------------------------------
(* Tool Layer specification: a caller calls one tool function with a        *)
(* parameter object, or with none, and takes the settled promise before the *)
(* next call.  The Tool Layer keeps no state between calls.                 *)

\* the call of function name with object p ended with r and left p as after
Called(name, p, after, r) ==
    /\ tool = "init"
    /\ tool' = name
    /\ given' = p
    /\ params' = after
    /\ result' = r
    /\ UNCHANGED exceptToolVars

ToolInit == GenInit

GenerateIntelligentContract ==
    \E p \in IntelligentContractParams \cup NoParams :
        Called("GenLayerTools.generateIntelligentContract", p, p,
               GenLayerTools_generateIntelligentContract(p))

CreatePredictionMarket ==
    \E p \in PredictionMarketParams \cup NoParams :
        Called("GenLayerTools.createPredictionMarket", p,
               GenLayerTools_createPredictionMarket_params(p),
               GenLayerTools_createPredictionMarket(p))

ModuleCreatePredictionMarket ==
    \E p \in PredictionMarketParams \cup NoParams :
        Called("ContractGenerationTools.createPredictionMarket", p, p,
               ContractGenerationTools_createPredictionMarket(p))

CreateVectorStore ==
    \E p \in VectorStoreParams \cup NoParams :
        Called("GenLayerTools.createVectorStore", p, p,
               GenLayerTools_createVectorStore(p))

ModuleCreateVectorStore ==
    \E p \in VectorStoreParams \cup NoParams :
        Called("ContractGenerationTools.createVectorStore", p, p,
               ContractGenerationTools_createVectorStore(p))

GenerateContractTemplate ==
    \E p \in ContractTemplateParams \cup NoParams :
        Called("GenLayerTools.generateContractTemplate", p, p,
               GenLayerTools_generateContractTemplate(p))

ModuleGenerateContractTemplate ==
    \E p \in ContractTemplateParams \cup NoParams :
        Called("ContractGenerationTools.generateContractTemplate", p, p,
               ContractGenerationTools_generateContractTemplate(p))

AddWebDataAccess ==
    \E p \in WebDataAccessParams \cup NoParams :
        Called("GenLayerTools.addWebDataAccess", p, p,
               GenLayerTools_addWebDataAccess(p))

AddEquivalencePrinciple ==
    \E p \in EquivalenceParams \cup NoParams :
        Called("GenLayerTools.addEquivalencePrinciple", p, p,
               GenLayerTools_addEquivalencePrinciple(p))

ExplainGenLayerConcepts ==
    \E p \in ConceptParams \cup NoParams :
        Called("GenLayerTools.explainGenLayerConcepts", p, p,
               GenLayerTools_explainGenLayerConcepts(p))

GenerateContractInteractionExamples ==
    \E p \in InteractionExamplesParams \cup NoParams :
        Called("InteractionAndIntegrationTools.generateContractInteractionExamples",
               p, p, generateContractInteractionExamples(p))

GenerateTestingFramework ==
    \E p \in TestingFrameworkParams \cup NoParams :
        Called("InteractionAndIntegrationTools.generateTestingFramework",
               p, p, generateTestingFramework(p))

GenerateProjectBoilerplate ==
    \E p \in ProjectBoilerplateParams \cup NoParams :
        Called("InteractionAndIntegrationTools.generateProjectBoilerplate",
               p, p, generateProjectBoilerplate(p))

ExplainGenLayerTypes ==
    \E p \in TypesParams \cup NoParams :
        Called("TypesAndStorageTools.explainGenLayerTypes", p, p,
               TypesAndStorageTools_explainGenLayerTypes(p))

ExplainStoragePatterns ==
    \E p \in StorageParams \cup NoParams :
        Called("TypesAndStorageTools.explainStoragePatterns", p, p,
               TypesAndStorageTools_explainStoragePatterns(p))

GenerateDeploymentScript ==
    \E p \in DeploymentParams \cup NoParams :
        Called("DeploymentAndDebuggingTools.generateDeploymentScript", p, p,
               DeploymentAndDebuggingTools_generateDeploymentScript(p))

GenerateDebuggingGuide ==
    \E p \in DebuggingParams \cup NoParams :
        Called("DeploymentAndDebuggingTools.generateDebuggingGuide", p, p,
               DeploymentAndDebuggingTools_generateDebuggingGuide(p))

GenerateGenLayerJSIntegration ==
    \E p \in IntegrationParams \cup NoParams :
        Called("InteractionAndIntegrationTools.generateGenLayerJSIntegration",
               p, p,
               InteractionAndIntegrationTools_generateGenLayerJSIntegration(p))

\* the caller takes the settled promise
Settle ==
    /\ tool # "init"
    /\ tool' = "init"
    /\ given' = NoCall
    /\ params' = NoCall
    /\ result' = NoResult
    /\ UNCHANGED exceptToolVars

ToolNext ==
    \/ GenerateIntelligentContract
    \/ CreatePredictionMarket
    \/ ModuleCreatePredictionMarket
    \/ CreateVectorStore
    \/ ModuleCreateVectorStore
    \/ GenerateContractTemplate
    \/ ModuleGenerateContractTemplate
    \/ AddWebDataAccess
    \/ AddEquivalencePrinciple
    \/ ExplainGenLayerConcepts
    \/ GenerateContractInteractionExamples
    \/ GenerateTestingFramework
    \/ GenerateProjectBoilerplate
    \/ ExplainGenLayerTypes
    \/ ExplainStoragePatterns
    \/ GenerateDeploymentScript
    \/ GenerateDebuggingGuide
    \/ GenerateGenLayerJSIntegration
    \/ Settle

SpecTools == ToolInit /\ [][ToolNext]_vars

----------------------------------------------------------------------------
(* The two call-tool handlers: the one registerGenLayerTools installs,      *)
(* which validates the arguments and dispatches through handleToolCall,     *)
(* and the one the server class of index.ts installs, which dispatches to   *)
(* the Tool Layer at once.  A handler ends with an envelope                 *)
(* [faulted, fault, content, isError]; faulted says that an exception left  *)
(* the handler, which the protocol answers with an error of its own.        *)

\* the own properties of toolSchemas
ToolNames ==
    {"generate_intelligent_contract", "generate_contract_template",
     "create_prediction_market", "create_vector_store",
     "add_equivalence_principle", "add_web_data_access",
     "explain_genlayer_concepts", "explain_genlayer_types",
     "explain_storage_patterns", "generate_deployment_script",
     "generate_debugging_guide", "generate_genlayerjs_integration",
     "generate_contract_interaction_examples", "generate_testing_framework",
     "generate_project_boilerplate"}

\* the required properties of each tool's input schema
toolRequired ==
    [generate_intelligent_contract |-> <<"contract_name", "requirements">>,
     add_equivalence_principle |->
        <<"contract_code", "method_name", "validation_type">>,
     create_vector_store |-> <<"store_name", "description">>,
     add_web_data_access |->
        <<"contract_code", "url_template", "data_processing_logic">>,
     create_prediction_market |->
        <<"market_name", "description", "resolution_criteria">>,
     generate_contract_template |-> <<"template_type", "contract_name">>,
     explain_genlayer_concepts |-> <<"concept">>]

\* the issues of schema.parse(args): a required property that is absent
RECURSIVE RequiredIssues(_, _)
RequiredIssues(args, keys) ==
    IF Len(keys) = 0 THEN <<>>
    ELSE (IF Head(keys) \notin DOMAIN args
             \/ IsAbsent(Head(keys), args[Head(keys)])
          THEN <<Head(keys) \o ": Required">> ELSE <<>>)
            \o RequiredIssues(args, Tail(keys))

\* toolSchemas[toolName].parse(args): [threw, value]; when it threw, value
\* is the text the handler makes of the issues of the ZodError
schema_parse(toolName, args) ==
    IF IsMissing(args) THEN Thrown(": Required")
    ELSE LET issues == IF toolName \in DOMAIN toolRequired
                       THEN RequiredIssues(args, toolRequired[toolName])
                       ELSE <<>>
         IN  IF Len(issues) > 0 THEN Thrown(join(issues, ", "))
             ELSE Returned(args)

\* the switch of handleToolCall
toolFunctions ==
    [generate_intelligent_contract |-> "generateIntelligentContract",
     generate_contract_template |-> "generateContractTemplate",
     create_prediction_market |-> "createPredictionMarket",
     create_vector_store |-> "createVectorStore",
     add_equivalence_principle |-> "addEquivalencePrinciple",
     add_web_data_access |-> "addWebDataAccess",
     explain_genlayer_concepts |-> "explainGenLayerConcepts",
     explain_genlayer_types |-> "explainGenLayerTypes",
     explain_storage_patterns |-> "explainStoragePatterns",
     generate_deployment_script |-> "generateDeploymentScript",
     generate_debugging_guide |-> "generateDebuggingGuide",
     generate_genlayerjs_integration |-> "generateGenLayerJSIntegration",
     generate_contract_interaction_examples |->
        "generateContractInteractionExamples",
     generate_testing_framework |-> "generateTestingFramework",
     generate_project_boilerplate |-> "generateProjectBoilerplate"]

\* the static methods of the class GenLayerTools
GenLayerToolsMethods ==
    {"generateIntelligentContract", "addEquivalencePrinciple",
     "createVectorStore", "addWebDataAccess", "createPredictionMarket",
     "generateContractTemplate", "explainGenLayerConcepts"}

\* await GenLayerTools[method](p)
GenLayerTools_call(method, p) ==
    CASE method = "generateIntelligentContract" ->
            GenLayerTools_generateIntelligentContract(p)
      [] method = "addEquivalencePrinciple" ->
            GenLayerTools_addEquivalencePrinciple(p)
      [] method = "createVectorStore" -> GenLayerTools_createVectorStore(p)
      [] method = "addWebDataAccess" -> GenLayerTools_addWebDataAccess(p)
      [] method = "createPredictionMarket" ->
            GenLayerTools_createPredictionMarket(p)
      [] method = "generateContractTemplate" ->
            GenLayerTools_generateContractTemplate(p)
      [] method = "explainGenLayerConcepts" ->
            GenLayerTools_explainGenLayerConcepts(p)

Envelope(text, isError) ==
    [faulted |-> FALSE, fault |-> "",
     content |-> <<[type |-> "text", text |-> text]>>, isError |-> isError]

Fault(message) ==
    [faulted |-> TRUE, fault |-> message, content |-> <<>>, isError |-> FALSE]

\* the handler ended with envelope after it had called the Tool Layer
\* function invoked ("none" when it called none)
Ended(envelope, called) ==
    [envelope |-> envelope, invoked |-> called, passed |-> <<>>]

\* the try block of handleToolCall ended by throwing
Throws(kind, message, called) ==
    [threw |-> TRUE, kind |-> kind, message |-> message,
     envelope |-> Fault(message), invoked |-> called, passed |-> <<>>]

\* the try block of handleToolCall ended by returning
Returns(envelope, called) ==
    [threw |-> FALSE, kind |-> "", message |-> "",
     envelope |-> envelope, invoked |-> called, passed |-> <<>>]

\* the Tool Layer function was called with the object args
Passing(r, args) == [r EXCEPT !.passed = Append(@, args)]

\* the handler ends after its try block has passed what r holds
After(r, ended) == [ended EXCEPT !.passed = r.passed]

\* a variant that hands the validated arguments on as they were sent
sanitizedArgsRaw(securityValidation, validatedArgs) == validatedArgs

\* const sanitizedArgs = securityValidation.sanitizedParams || validatedArgs
sanitizedArgs(securityValidation, validatedArgs) ==
    IF securityValidation.sanitizedParams.defined
    THEN securityValidation.sanitizedParams.value
    ELSE validatedArgs

\* the try block of handleToolCall
handleToolCallTry(toolName, args, production) ==
    IF toolName \notin ToolNames /\ toolName \notin ObjectPrototypeKeys
    THEN Returns(Envelope("Error: Unknown tool '" \o toolName \o "'", TRUE),
                 "none")
    ELSE IF toolName \notin ToolNames
    THEN Throws("TypeError", "schema.parse is not a function", "none")
    ELSE LET validatedArgs == schema_parse(toolName, args)
         IN  IF validatedArgs.threw
             THEN Throws("ZodError", validatedArgs.value, "none")
             ELSE LET securityValidation ==
                          validateToolInput(toolName, validatedArgs.value,
                                            production)
                      method == toolFunctions[toolName]
                      passedArgs == sanitizedArgs(securityValidation,
                                                  validatedArgs.value)
                  IN  IF ~securityValidation.isValid
                      THEN Returns(Envelope("Security Validation Error: "
                                               \o join(securityValidation.errors,
                                                       ", "),
                                            TRUE),
                                   "none")
                      ELSE IF toolName \notin DOMAIN toolFunctions
                      THEN Returns(Envelope("Error: Unhandled tool '"
                                               \o toolName \o "'", TRUE),
                                   "none")
                      ELSE IF method \notin GenLayerToolsMethods
                      THEN Throws("TypeError",
                                  "GenLayerTools." \o method
                                     \o " is not a function",
                                  "none")
                      ELSE LET r == GenLayerTools_call(method, passedArgs)
                           IN  Passing(
                                 IF r.rejected
                                 THEN Throws("Error", r.content, method)
                                 ELSE Returns(Envelope(r.content, r.isError),
                                              method),
                                 passedArgs)

handleToolCallUncaught(toolName, args, production) ==
    LET r == handleToolCallTry(toolName, args, production)
    IN  After(r, Ended(r.envelope, r.invoked))

handleToolCall(toolName, args, production) ==
    LET r == handleToolCallTry(toolName, args, production)
    IN  After(r, IF ~r.threw THEN Ended(r.envelope, r.invoked)
                 ELSE IF r.kind = "ZodError"
                 THEN Ended(Envelope("Validation Error: " \o r.message, TRUE),
                            r.invoked)
                 ELSE Ended(Envelope("Error: " \o r.message, TRUE),
                            r.invoked))

\* the handler of registerGenLayerTools
registryCallTool(name, args, production) ==
    IF name \in ToolNames \/ name \in ObjectPrototypeKeys
    THEN handleToolCall(name, args, production)
    ELSE Ended(Envelope("Error: Unknown tool '" \o name \o "'", TRUE), "none")

\* the cases of the switch in the handler of index.ts
serverCases ==
    {"generate_intelligent_contract", "add_equivalence_principle",
     "create_vector_store", "add_web_data_access", "create_prediction_market",
     "generate_contract_template", "explain_genlayer_concepts"}

\* the handler of index.ts
serverCallTool(name, args) ==
    IF name \notin serverCases
    THEN Ended(Envelope("Error: Unknown tool: " \o name, TRUE), "none")
    ELSE LET r == GenLayerTools_call(toolFunctions[name], args)
         IN  Passing(
               IF r.rejected
               THEN Ended(Envelope("Error: " \o r.content, TRUE),
                          toolFunctions[name])
               ELSE Ended(Envelope(r.content, r.isError), toolFunctions[name]),
               args)

\* the handler of the registerGenLayerTools that does not validate
\* (src/unnamed/part_004): a switch over the fifteen tool names inside a try
\* block whose catch answers "Error: " and the message
directCallTool(name, args) ==
    IF name \notin DOMAIN toolFunctions
    THEN Ended(Envelope("Error: Unknown tool: " \o name, TRUE), "none")
    ELSE IF toolFunctions[name] \notin GenLayerToolsMethods
    THEN Ended(Envelope("Error: GenLayerTools." \o toolFunctions[name]
                           \o " is not a function", TRUE),
               "none")
    ELSE LET r == GenLayerTools_call(toolFunctions[name], args)
         IN  Passing(
               IF r.rejected
               THEN Ended(Envelope("Error: " \o r.content, TRUE),
                          toolFunctions[name])
               ELSE Ended(Envelope(r.content, r.isError), toolFunctions[name]),
               args)

\* the names of the tools the list-tools handlers of the two
\* registerGenLayerTools answer with
toolDefinitions ==
    {"generate_intelligent_contract", "add_equivalence_principle",
     "create_vector_store", "add_web_data_access", "create_prediction_market",
     "generate_contract_template", "explain_genlayer_concepts",
     "explain_genlayer_types", "explain_storage_patterns",
     "generate_deployment_script", "generate_debugging_guide",
     "generate_genlayerjs_integration",
     "generate_contract_interaction_examples", "generate_testing_framework",
     "generate_project_boilerplate", "fetch_latest_api_docs"}

\* the names of the tools the list-tools handler of index.ts answers with
serverTools ==
    {"generate_intelligent_contract", "add_equivalence_principle",
     "create_vector_store", "add_web_data_access", "create_prediction_market",
     "generate_contract_template", "explain_genlayer_concepts"}

----------------------------------------------------------------------------
(* Handler specification: a client sends one tools/call request to one of   *)
(* the handlers and takes the answer before it sends the next.              *)

RequestNames ==
    ToolNames \cup {"unknown_tool", "", "constructor", "toString", "__proto__",
                    "fetch_latest_api_docs"}

RegistryUrls ==
    {undefined, "https://api.example.com/data", " https://API.example.com ",
     "https://api.example.com/data/{id}", "ftp://files.example.com/data",
     "http://127.0.0.1/data", "https://example.com/?q=javascript:"}

RegistryCodes ==
    {undefined, "class A(gl.Contract):\n    pass\n",
     "import  os\nclass A(gl.Contract):\n    def run(self):\n        EVAL (1)\n"}

\* the parameter objects a client sends with a tool name
RequestArgs(name) ==
    NoParams \cup
    CASE name = "generate_intelligent_contract" ->
            {p \in IntelligentContractParams :
                /\ p.use_llm /\ ~p.web_access
                /\ p.storage_fields = undefinedObject
                /\ p.template_type = undefined}
      [] name = "create_prediction_market" ->
            {p \in PredictionMarketParams :
                /\ p.description # undefined
                /\ p.resolution_deadline = undefined
                /\ p.category = undefined}
      [] name = "create_vector_store" -> VectorStoreParams
      [] name = "generate_contract_template" ->
            {p \in ContractTemplateParams :
                p.custom_parameters = undefinedObject}
      [] name = "add_web_data_access" ->
            [contract_code : RegistryCodes, url_template : RegistryUrls,
             data_processing_logic :
                {"Extract the latest price",
                 "<script>alert('x') -- </script>"}]
      [] name = "add_equivalence_principle" ->
            [contract_code : RegistryCodes \cup
                  {"\nclass TestContract(gl.Contract):\n    def test_method(self, data: str):\n        return data\n"},
             method_name : {undefined, "test_method", "TestMethod", "eval"},
             validation_type : {"comparative"},
             tolerance : {undefined, "5"}]
      [] name = "explain_genlayer_concepts" ->
            {p \in ConceptParams :
                /\ p.include_examples = undefined
                /\ p.detail_level \in {undefined, "basic"}}
      [] name = "generate_contract_interaction_examples" ->
            InteractionExamplesParams
      [] name = "generate_testing_framework" -> TestingFrameworkParams
      [] name = "generate_project_boilerplate" -> ProjectBoilerplateParams
      [] name = "fetch_latest_api_docs" ->
            {[topic |-> undefined], [topic |-> "contracts"]}
      [] OTHER -> {[concept |-> "equivalence_principle"]}

\* the handler answered the request
Answered(handler, name, args, production, r) ==
    /\ request = NoCall
    /\ request' = [handler |-> handler, name |-> name, arguments |-> args,
                   production |-> production]
    /\ invoked' = r.invoked
    /\ received' = r.passed
    /\ response' = r.envelope
    /\ UNCHANGED <<genVars, toolVars, marketVars, webVars, callVars,
                   publishVars>>

HandlerInit == GenInit

RegistryCallTool ==
    \E name \in RequestNames, production \in BOOLEAN :
        \E args \in RequestArgs(name) :
            Answered("registerGenLayerTools", name, args, production,
                     registryCallTool(name, args, production))

ServerCallTool ==
    \E name \in RequestNames :
        \E args \in RequestArgs(name) :
            Answered("GenLayerMCPServer", name, args, FALSE,
                     serverCallTool(name, args))

DirectCallTool ==
    \E name \in RequestNames :
        \E args \in RequestArgs(name) :
            Answered("registerGenLayerTools (part_004)", name, args, FALSE,
                     directCallTool(name, args))

\* the client takes the answer
TakeAnswer ==
    /\ request # NoCall
    /\ request' = NoCall
    /\ invoked' = "none"
    /\ received' = <<>>
    /\ response' = Envelope("", FALSE)
    /\ UNCHANGED <<genVars, toolVars, marketVars, webVars, callVars,
                   publishVars>>

HandlerNext ==
    \/ RegistryCallTool
    \/ ServerCallTool
    \/ DirectCallTool
    \/ TakeAnswer

SpecHandlers == HandlerInit /\ [][HandlerNext]_vars

----------------------------------------------------------------------------
(* Calls in flight.  A handler is an async function: it runs up to its      *)
(* await of the Tool Layer function, whose body has no await of its own     *)
(* and so has run to its end by then, and it resumes later, after other     *)
(* handlers may have run, with the result it awaited.  A caller that holds  *)
(* a parameter object can also call a Tool Layer function itself, and call  *)
(* it again with the same object.                                           *)

MaxCalls == 3

\* the try block of the handler of index.ts
serverCallToolTry(name, args) ==
    IF name \notin serverCases
    THEN Throws("Error", "Unknown tool: " \o name, "none")
    ELSE LET r == GenLayerTools_call(toolFunctions[name], args)
         IN  IF r.rejected THEN Throws("Error", r.content, toolFunctions[name])
             ELSE Returns(Envelope(r.content, r.isError), toolFunctions[name])

\* what a handler has done when it reaches its await
tryOf(handler, name, args) ==
    CASE handler = "registerGenLayerTools" ->
            IF name \in ToolNames \/ name \in ObjectPrototypeKeys
            THEN handleToolCallTry(name, args, FALSE)
            ELSE Returns(Envelope("Error: Unknown tool '" \o name \o "'", TRUE),
                         "none")
      [] handler = "GenLayerMCPServer" -> serverCallToolTry(name, args)
      [] handler = "GenLayerTools" ->
            LET r == GenLayerTools_call(toolFunctions[name], args)
            IN  IF r.rejected THEN Throws("Error", r.content, toolFunctions[name])
                ELSE Returns(Envelope(r.content, r.isError), toolFunctions[name])

\* the parameter object of the caller once the handler has reached its
\* await: createPredictionMarket writes the default source into the object
\* it is given, and the registry gives it a sanitized copy
objectAfter(handler, name, args) ==
    IF handler # "registerGenLayerTools" /\ name = "create_prediction_market"
    THEN GenLayerTools_createPredictionMarket_params(args)
    ELSE args

awaitedOfFirst(inFlight, c) == inFlight[1].local

\* result = await ...: the local variable of call c
awaited(inFlight, c) == inFlight[c].local

\* the catch blocks of the two handlers; a caller of the Tool Layer has none
settle(handler, r) ==
    IF ~r.threw \/ handler = "GenLayerTools" THEN r.envelope
    ELSE IF r.kind = "ZodError"
    THEN Envelope("Validation Error: " \o r.message, TRUE)
    ELSE Envelope("Error: " \o r.message, TRUE)

MarketAsk(sources) ==
    [market_name |-> "BitcoinPriceMarket",
     description |-> "Will Bitcoin reach 100k?",
     resolution_criteria |-> "Price above 100k USD",
     web_sources |-> sources,
     resolution_deadline |-> undefined,
     category |-> undefined]

\* the requests of the clients and the calls of the callers
Asks ==
    {[handler |-> "registerGenLayerTools",
      name |-> "generate_intelligent_contract",
      arguments |-> [contract_name |-> "TestContract",
                     requirements |-> "A simple storage contract",
                     use_llm |-> FALSE, web_access |-> FALSE,
                     storage_fields |-> undefinedObject,
                     template_type |-> undefined]],
     [handler |-> "registerGenLayerTools",
      name |-> "create_prediction_market",
      arguments |-> MarketAsk(undefinedObject)],
     [handler |-> "GenLayerMCPServer",
      name |-> "create_prediction_market",
      arguments |-> MarketAsk(Some(<<>>))],
     [handler |-> "GenLayerTools",
      name |-> "create_prediction_market",
      arguments |-> MarketAsk(undefinedObject)]}

NewCall(handler, name, asked, object, again) ==
    [handler |-> handler, name |-> name, asked |-> asked, given |-> object,
     object |-> object, again |-> again, pc |-> "received",
     local |-> Returns(Envelope("", FALSE), "none"),
     envelope |-> Envelope("", FALSE)]

CallsInit == GenInit

\* a request arrives, or a caller calls with a new object
Receive ==
    \E ask \in Asks :
        /\ Len(calls) < MaxCalls
        /\ calls' = Append(calls, NewCall(ask.handler, ask.name, ask.arguments,
                                          ask.arguments, 0))
        /\ UNCHANGED <<genVars, toolVars, marketVars, webVars, handlerVars,
                       publishVars>>

\* a caller of the Tool Layer calls again with the object of an earlier call
ReceiveAgain ==
    \E d \in 1..Len(calls) :
        /\ Len(calls) < MaxCalls
        /\ calls[d].handler = "GenLayerTools"
        /\ calls[d].pc # "received"
        /\ calls' = Append(calls, NewCall(calls[d].handler, calls[d].name,
                                          calls[d].asked, calls[d].object, d))
        /\ UNCHANGED <<genVars, toolVars, marketVars, webVars, handlerVars,
                       publishVars>>

\* the parameter object of a caller after it has made n calls with it
RECURSIVE objectAfterCalls(_, _)
objectAfterCalls(ask, n) ==
    IF n = 0 THEN ask.arguments
    ELSE objectAfter(ask.handler, ask.name, objectAfterCalls(ask, n - 1))

\* the parameter objects a call of the ask can be given
ObjectsOf(ask) == {objectAfterCalls(ask, n) : n \in 0..MaxCalls}

\* call c, a call of the handler for the tool with the object, has run up to
\* its await with the outcome r
Awaiting(c, handler, name, object, r, after) ==
    /\ c <= Len(calls)
    /\ calls[c].pc = "received"
    /\ calls[c].handler = handler
    /\ calls[c].name = name
    /\ calls[c].given = object
    /\ calls' = [calls EXCEPT ![c].pc = "awaiting",
                              ![c].local = r,
                              ![c].object = after]
    /\ UNCHANGED <<genVars, toolVars, marketVars, webVars, handlerVars,
                   publishVars>>

\* a handler runs up to its await
Dispatch ==
    \E c \in 1..MaxCalls :
        \E ask \in Asks :
            \E object \in ObjectsOf(ask) :
                Awaiting(c, ask.handler, ask.name, object,
                         tryOf(ask.handler, ask.name, object),
                         objectAfter(ask.handler, ask.name, object))

\* a handler resumes after its await and answers
Resume ==
    \E c \in 1..Len(calls) :
        /\ calls[c].pc = "awaiting"
        /\ calls' = [calls EXCEPT
                        ![c].pc = "answered",
                        ![c].envelope = settle(calls[c].handler,
                                               awaited(calls, c))]
        /\ UNCHANGED <<genVars, toolVars, marketVars, webVars, handlerVars,
                       publishVars>>

CallsNext ==
    \/ Receive
    \/ ReceiveAgain
    \/ Dispatch
    \/ Resume

SpecCalls == CallsInit /\ [][CallsNext]_vars

----------------------------------------------------------------------------
(* Claims about calls in flight, checked under SpecCalls                    *)

\* the answer to the call when no other call is in flight
Alone(handler, name, args) ==
    CASE handler = "registerGenLayerTools" ->
            registryCallTool(name, args, FALSE).envelope
      [] handler = "GenLayerMCPServer" -> serverCallTool(name, args).envelope
      [] handler = "GenLayerTools" ->
            LET r == GenLayerTools_call(toolFunctions[name], args)
            IN  IF r.rejected THEN Fault(r.content)
                ELSE Envelope(r.content, r.isError)

----------------------------------------------------------------------------
(* Claims about the generator, checked under SpecGen                        *)

OwnKeys(table) == DOMAIN table
TableValues(table) == {table[k] : k \in DOMAIN table}

\* C1: mapType is total over strings: for every string s it returns the
\* table entry of lowercase(s) when there is one and s itself otherwise; it
\* never throws and never returns an empty result (nor anything that is
\* not a string).
C1_MapTypeTotal ==
    op = "mapGenLayerType" =>
        LET s == arg.type
        IN  /\ ~out.threw
            /\ IsString(out.value)
            /\ toLowerCase(s) \in OwnKeys(typeMap)
                    => out.value = typeMap[toLowerCase(s)]
            /\ toLowerCase(s) \notin OwnKeys(typeMap) => out.value = s
            /\ out.value # ""

\* C2: defaultValueFor returns the fixed literal for each of the six table
\* types and "<type>()" for every other type string, those starting with
\* DynArray or TreeMap included; for every type of mapType's table the
\* result is non-empty.
C2_DefaultValueTable ==
    (op = "getDefaultValue" /\ IsString(arg.glType)) =>
        LET t == arg.glType
        IN  /\ ~out.threw
            /\ t \in OwnKeys(defaults) => out.value = defaults[t]
            /\ t \notin OwnKeys(defaults) => out.value = t \o "()"
            /\ t \in TableValues(typeMap) => out.value # ""

DeclarationMark(f) == "    " \o f.name \o ": "
ParameterMark(f)   == ", " \o f.name \o ": "
AssignmentMark(f)  == "        self." \o f.name \o " = " \o f.name \o "\n"
GetterMark(f)      == "    def get_" \o f.name \o "(self) -> "

Marks(F, Mark(_)) == [i \in 1..Len(F) |-> Mark(F[i])]

\* the text holds one entry per element of F, in the order of F
OnePerField(text, F, Mark(_)) ==
    /\ InOrder(text, Marks(F, Mark), 1)
    /\ \A i \in 1..Len(F) :
          Count(text, Mark(F[i]))
            = Cardinality({j \in 1..Len(F) : F[j].name = F[i].name})

\* C3: for every field list F, buildBaseContract(name, F) emits field
\* declarations, constructor parameters, constructor assignments and
\* getters, each with exactly one entry per element of F in the order of F;
\* with no fields there are no declarations and no getters, the constructor
\* takes only self and its body is pass; exactly one get_info method is
\* emitted in every case.
C3_OneEntryPerFieldInOrder ==
    op = "generateBaseContract" =>
        LET F == arg.fields
            text == out.value
        IN  /\ ~out.threw
            /\ OnePerField(text, F, DeclarationMark)
            /\ OnePerField(text, F, ParameterMark)
            /\ OnePerField(text, F, AssignmentMark)
            /\ OnePerField(text, F, GetterMark)
            /\ Len(F) = 0 =>
                  /\ Contains(text, "(gl.Contract):\n    def __init__(self):\n        pass\n")
                  /\ Count(text, "    def get_") = 1
            /\ Count(text, "    def get_info(self)") = 1

\* C4: for every template tag outside the closed set of named templates and
\* every name, generateTemplate(tag, name, params) returns exactly
\* buildBaseContract(name, <<>>), whatever params is, and is not an error.
C4_UnknownTemplateFallsBack ==
    (op = "generateAdvancedContractTemplate"
        /\ arg.templateType \notin NamedTemplates) =>
        /\ ~out.threw
        /\ out = generateBaseContract(arg.contractName, <<>>)

C4_Witness ==
    /\ op = "generateAdvancedContractTemplate"
    /\ arg.templateType = "nonexistent_tag"
    /\ arg.contractName = "Foo"
    /\ arg.customParams # <<>>
    /\ Contains(out.value, "class Foo(gl.Contract):\n    def __init__(self):\n        pass\n")

\* the three methods of the LLM block, without the white space around them
LLMMethodBlock(r) == trim(llmMethods(r))

LLMApplications(r) ==
    Cardinality({i \in 1..Len(applied.ops) :
                    applied.ops[i] = [fn |-> "llm", text |-> r]})

\* C5: the LLM augmenter appends unconditionally: code to which it was
\* applied n times with requirements r holds n copies of the LLM method
\* block for r more than the code it started from, so
\* addLLM(addLLM(code, r), r) holds the block twice.
C5_AppendNotIdempotent ==
    IsCode =>
        \A r \in RequirementTexts :
            Count(out.value, LLMMethodBlock(r))
                = Count(applied.base, LLMMethodBlock(r)) + LLMApplications(r)

C5_Witness ==
    /\ op = "addLLMInteractions"
    /\ Len(applied.ops) = 2
    /\ applied.ops[1] = applied.ops[2]
    /\ applied.ops[1].fn = "llm"
    /\ Count(out.value, LLMMethodBlock(applied.ops[1].text)) = 2

\* what a call appended: the returned text after the first n characters
Appended(text, n) == SubSeq(text, n + 1, Len(text))

\* C20: both augmenters are pure appends: addLLM(code, r) and
\* addWebAccess(code, u, p) are trimEnd(code) followed by a block that
\* depends on the interpolated arguments only, the block the same call
\* appends to the empty code; nothing inside trimEnd(code) is removed,
\* reordered or rewritten.
C20_AugmentersOnlyAppend ==
    op \in {"addLLMInteractions", "addWebDataAccess"} =>
        LET kept == trimEnd(arg.contractCode)
            block == IF op = "addLLMInteractions"
                     THEN addLLMInteractions("", arg.methodRequirements)
                     ELSE addWebDataAccess("", arg.urlTemplate,
                                           arg.processingLogic)
        IN  /\ SubSeq(out.value, 1, Len(kept)) = kept
            /\ Appended(out.value, Len(kept)) = block
            /\ Len(out.value) = Len(kept) + Len(block)

\* the web augmenter applied to code that begins and ends with white space
\* and already holds the LLM block
C20_Witness ==
    /\ op = "addWebDataAccess"
    /\ Len(applied.ops) = 2
    /\ applied.ops[1].fn = "llm"
    /\ trimStart(applied.base) # applied.base
    /\ trimEnd(applied.base) # applied.base
    /\ Len(trimEnd(applied.base)) > 0

----------------------------------------------------------------------------
(* Claims about the Tool Layer, checked under SpecTools                     *)

\* every generated contract holds the line of its class
HoldsContractCode(text) == Contains(text, "(gl.Contract):")

\* the name is missing or does not match ^[A-Z][a-zA-Z0-9]*$
NameRefused(name) == name = undefined \/ ~IsPascalCase(name)

\* the text, trimmed, is shorter than the minimum; a missing text has no
\* characters
RequirementsRefused(text) ==
    text = undefined \/ Len(trim(text)) < MinRequirementsLength

\* C6: generateIntelligentContract returns isError=true exactly when
\* contract_name is missing or does not match ^[A-Z][a-zA-Z0-9]*$ or the
\* trimmed requirements text is shorter than 10 characters; every other
\* input gets a non-error result, and an error result holds no generated
\* contract code.
C6_ErrorExactlyWhenInvalid ==
    (tool = "GenLayerTools.generateIntelligentContract" /\ ~IsMissing(given))
        => /\ ~result.rejected
           /\ result.isError <=> \/ NameRefused(given.contract_name)
                                 \/ RequirementsRefused(given.requirements)
           /\ result.isError => ~HoldsContractCode(result.content)

\* the name matches ^[A-Z][a-zA-Z0-9]*$ and ends with the literal Market
StatedMarketName(name) ==
    name # undefined /\ IsPascalCase(name) /\ endsWith(name, "Market")

StatedCriteria(text) == text # undefined /\ Len(text) >= MinCriteriaLength

\* C7: createPredictionMarket accepts a request exactly when market_name
\* matches ^[A-Z][a-zA-Z0-9]*$ and ends with the literal Market and
\* resolution_criteria has at least 20 characters; it returns isError=true
\* in every other case and never an error for an accepted request.
C7_AcceptedExactlyWhenNamedAndDetailed ==
    tool = "GenLayerTools.createPredictionMarket"
        => /\ ~result.rejected
           /\ ~result.isError <=> /\ ~IsMissing(given)
                                  /\ StatedMarketName(given.market_name)
                                  /\ StatedCriteria(given.resolution_criteria)

\* the name a tool function takes for the template or the store it makes
NameTaken ==
    IF tool \in {"GenLayerTools.generateContractTemplate",
                 "ContractGenerationTools.generateContractTemplate"}
    THEN given.contract_name
    ELSE given.store_name

\* C8: every Tool Layer function that takes a template or store name
\* (contract_name of generateContractTemplate, store_name of
\* createVectorStore) returns isError=true, without generating code,
\* whenever that name does not match ^[A-Z][a-zA-Z0-9]*$.
C8_NamesValidatedEverywhere ==
    (/\ tool \in {"GenLayerTools.generateContractTemplate",
                  "ContractGenerationTools.generateContractTemplate",
                  "GenLayerTools.createVectorStore",
                  "ContractGenerationTools.createVectorStore"}
     /\ ~IsMissing(given)
     /\ NameRefused(NameTaken))
        => /\ ~result.rejected
           /\ result.isError
           /\ ~HoldsContractCode(result.content)

\* the sources the contract and the report are to use
SourcesToUse(sources) ==
    IF LengthOrZero(sources) = 0 THEN <<DefaultWebSource>>
    ELSE sources.value

\* C9: when createPredictionMarket passes validation and web_sources is
\* absent or empty, the result is not an error and the generated contract
\* and the report use exactly one source, the fixed CoinDesk URL; when
\* web_sources is not empty it is used unchanged.
C9_DefaultSourceWhenNoneGiven ==
    (/\ tool \in {"GenLayerTools.createPredictionMarket",
                  "ContractGenerationTools.createPredictionMarket"}
     /\ MarketAccepted(given))
        => LET sources == SourcesToUse(given.web_sources)
           IN  /\ ~result.rejected
               /\ ~result.isError
               /\ Contains(result.content,
                           "Web Sources: " \o join(sources, ", ") \o "\n")
               /\ Contains(result.content,
                           ": " \o ToString(Len(sources)) \o " configured\n")

\* C10: no Tool Layer function ever raises or rejects: for every input, a
\* missing or null parameter object and missing fields included, the call
\* completes with a result whose content is a string, and an exception
\* raised inside it becomes isError=true with the message in content.
C10_NoToolRejects ==
    tool # "init"
        => /\ ~result.rejected
           /\ IsMissing(given)
                => /\ result.isError
                   /\ Contains(result.content,
                               "Cannot read properties of " \o given.missing)

\* the code holds a definition of the method, whatever follows its
\* parameter list
DefinesMethod(code, methodName) ==
    Contains(code, "def " \o methodName \o "(")

\* C18: addEquivalencePrinciple adds equivalence-principle validation for
\* the named method: whenever contract_code holds a definition
\* "def <method_name>(...)", with or without a return annotation, the
\* returned code differs from the input and carries the annotation naming
\* the requested validation type (and the tolerance when one is supplied);
\* the result is not an error.
C18_AnnotatesEveryDefinition ==
    (/\ tool = "GenLayerTools.addEquivalencePrinciple"
     /\ ~IsMissing(given)
     /\ given.contract_code # undefined
     /\ given.method_name # undefined
     /\ DefinesMethod(given.contract_code, given.method_name))
        => /\ ~result.rejected
           /\ ~result.isError
           /\ result.content
                # EquivalenceHeadline(given) \o given.contract_code
           /\ Contains(result.content,
                       "# Equivalence Principle Validation ("
                            \o given.validation_type \o ")")
           /\ given.tolerance # undefined
                => Contains(result.content,
                            "# Tolerance: " \o given.tolerance \o "\n")

DetailLevels == {"basic", "intermediate", "advanced"}

\* the level asked for, intermediate when none is given
LevelAsked(p) ==
    IF p.detail_level = undefined THEN "intermediate" ELSE p.detail_level

\* C19: explainGenLayerConcepts returns isError=true with an "Unknown
\* concept" message for every concept string that is not one of the nine
\* supported concepts (strings that name built-in object properties
\* included), and a non-error explanation for each supported concept at
\* each of the levels basic, intermediate and advanced; the "Code
\* Examples" section is present only when include_examples is not false.
C19_UnknownConceptsRefused ==
    (tool = "GenLayerTools.explainGenLayerConcepts" /\ ~IsMissing(given))
        => /\ ~result.rejected
           /\ given.concept \notin Concepts
                => /\ result.isError
                   /\ Contains(result.content, "Unknown concept")
           /\ (given.concept \in Concepts /\ LevelAsked(given) \in DetailLevels)
                => /\ ~result.isError
                   /\ Contains(result.content,
                               explanations[given.concept][LevelAsked(given)])
           /\ Contains(result.content, "## Code Examples")
                => given.include_examples # "false"

----------------------------------------------------------------------------
(* Claims about the call-tool handlers, checked under SpecHandlers          *)

\* the names the handler that took the request dispatches
Registered ==
    IF request.handler = "registerGenLayerTools" THEN ToolNames
    ELSE IF request.handler = "GenLayerMCPServer" THEN serverCases
    ELSE DOMAIN toolFunctions

\* C11: whatever the tool name and the arguments, no exception leaves a
\* call-tool handler: the answer is an envelope whose content holds a text
\* item; for a name the handler does not dispatch the envelope has isError
\* true and no Tool Layer function was called.
C11_HandlersAlwaysAnswer ==
    request # NoCall
        => /\ ~response.faulted
           /\ Len(response.content) = 1
           /\ response.content[1].type = "text"
           /\ request.name \notin Registered
                => (response.isError /\ invoked = "none")

\* the registry handler is asked for a name that toolSchemas only inherits
C11_Witness ==
    /\ request # NoCall
    /\ request.handler = "registerGenLayerTools"
    /\ request.name = "constructor"
    /\ ~IsMissing(request.arguments)
    /\ response.content[1].text = "Error: schema.parse is not a function"

\* a create_prediction_market request the Tool Layer accepts: a PascalCase
\* name that ends in Market, a description, criteria of 20 characters
WellFormedMarket(args) ==
    /\ ~IsMissing(args)
    /\ IsMarketName(args.market_name)
    /\ args.description # undefined
    /\ args.resolution_criteria # undefined
    /\ Len(args.resolution_criteria) >= MinCriteriaLength

\* a create_vector_store request with a PascalCase name and a description
WellFormedStore(args) ==
    /\ ~IsMissing(args)
    /\ IsPascalCase(args.store_name)
    /\ args.description # undefined

\* C17: a create_prediction_market or create_vector_store request with a
\* PascalCase name (the market's ending in Market), criteria of at least 20
\* characters and well-formed http(s) sources, sent through handleToolCall
\* of the registry, passes the schema and the security validation, reaches
\* the Tool Layer function and is answered with isError false.
C17_WellFormedRequestsReachTools ==
    (/\ request # NoCall
     /\ request.handler = "registerGenLayerTools"
     /\ \/ /\ request.name = "create_prediction_market"
           /\ WellFormedMarket(request.arguments)
        \/ /\ request.name = "create_vector_store"
           /\ WellFormedStore(request.arguments))
        => /\ ~response.faulted
           /\ ~response.isError
           /\ invoked = toolFunctions[request.name]

----------------------------------------------------------------------------
(* The prediction market contract whose text createPredictionMarket         *)
(* returns.  A contract object is the record of its fields; bettors is a    *)
(* function from the addresses that have bet to their two bet counters.     *)
(* A method returns [raised, exception, returned, self]: a raised           *)
(* exception leaves the fields as they were.                                *)

MaxAmount == 2
MaxPool == 5

Raised(self, message) ==
    [raised |-> TRUE, exception |-> message, returned |-> undefined,
     self |-> self]

Return(self, value) ==
    [raised |-> FALSE, exception |-> "", returned |-> value, self |-> self]

\* __init__(self, description, resolution_criteria, web_sources)
PredictionMarket(description, resolution_criteria, web_sources) ==
    [description         |-> description,
     resolution_criteria |-> resolution_criteria,
     web_sources         |-> web_sources,
     resolved            |-> FALSE,
     outcome             |-> FALSE,
     total_yes_bets      |-> 0,
     total_no_bets       |-> 0,
     bettors             |-> <<>>]

\* self.bettors[sender] = {"yes_bets": 0, "no_bets": 0} when sender is new
WithBettor(bettors, sender) ==
    IF sender \in DOMAIN bettors
    THEN bettors
    ELSE [a \in DOMAIN bettors \cup {sender} |->
             IF a = sender THEN [yes_bets |-> 0, no_bets |-> 0]
                           ELSE bettors[a]]

YesOrNo(b) == IF b THEN "Yes" ELSE "No"

place_betUnguarded(self, sender, amount, prediction) ==
    LET known == WithBettor(self.bettors, sender)
    IN  IF prediction
        THEN Return([self EXCEPT
                        !.bettors = [known EXCEPT
                                        ![sender].yes_bets = @ + amount],
                        !.total_yes_bets = @ + amount],
                    "Bet placed: " \o ToString(amount) \o " on Yes")
        ELSE Return([self EXCEPT
                        !.bettors = [known EXCEPT
                                        ![sender].no_bets = @ + amount],
                        !.total_no_bets = @ + amount],
                    "Bet placed: " \o ToString(amount) \o " on No")

place_bet(self, sender, amount, prediction) ==
    IF self.resolved
    THEN Raised(self, "Market already resolved")
    ELSE LET known == WithBettor(self.bettors, sender)
         IN  IF prediction
             THEN Return([self EXCEPT
                             !.bettors = [known EXCEPT
                                             ![sender].yes_bets = @ + amount],
                             !.total_yes_bets = @ + amount],
                         "Bet placed: " \o ToString(amount) \o " on "
                            \o YesOrNo(prediction))
             ELSE Return([self EXCEPT
                             !.bettors = [known EXCEPT
                                             ![sender].no_bets = @ + amount],
                             !.total_no_bets = @ + amount],
                         "Bet placed: " \o ToString(amount) \o " on "
                            \o YesOrNo(prediction))

resolve_market(self) ==
    IF self.resolved
    THEN Raised(self, "Market already resolved")
    ELSE LET settled == [self EXCEPT !.resolved = TRUE, !.outcome = TRUE]
         IN  Return(settled,
                    "Market resolved with outcome: " \o YesOrNo(settled.outcome))

payoutOfStake(user_bet_on_winner, total_pool, winning_pool) ==
    user_bet_on_winner

\* a payout of the whole pool to every winner
payoutOfPool(user_bet_on_winner, total_pool, winning_pool) ==
    total_pool

\* payout = (user_bet_on_winner * total_pool) // winning_pool
payout(user_bet_on_winner, total_pool, winning_pool) ==
    (user_bet_on_winner * total_pool) \div winning_pool

\* the exception of Python's // with a zero divisor
ZeroDivisionError == "integer division or modulo by zero"

\* a variant without the check of user_bet_on_winner
claim_winningsUnchecked(self, sender) ==
    IF ~self.resolved
    THEN Raised(self, "Market not yet resolved")
    ELSE IF sender \notin DOMAIN self.bettors
    THEN Raised(self, "No bets placed by sender")
    ELSE LET user_bets == self.bettors[sender]
             winning_pool == IF self.outcome THEN self.total_yes_bets
                                             ELSE self.total_no_bets
             user_bet_on_winner == IF self.outcome THEN user_bets.yes_bets
                                                   ELSE user_bets.no_bets
             total_pool == self.total_yes_bets + self.total_no_bets
         IN  IF winning_pool = 0
             THEN Raised(self, ZeroDivisionError)
             ELSE Return(
                    IF self.outcome
                    THEN [self EXCEPT !.bettors[sender].yes_bets = 0]
                    ELSE [self EXCEPT !.bettors[sender].no_bets = 0],
                    payout(user_bet_on_winner, total_pool, winning_pool))

claim_winnings(self, sender) ==
    IF ~self.resolved
    THEN Raised(self, "Market not yet resolved")
    ELSE IF sender \notin DOMAIN self.bettors
    THEN Raised(self, "No bets placed by sender")
    ELSE LET user_bets == self.bettors[sender]
             winning_pool == IF self.outcome THEN self.total_yes_bets
                                             ELSE self.total_no_bets
             user_bet_on_winner == IF self.outcome THEN user_bets.yes_bets
                                                   ELSE user_bets.no_bets
             total_pool == self.total_yes_bets + self.total_no_bets
         IN  IF user_bet_on_winner = 0
             THEN Raised(self, "No winning bets to claim")
             ELSE IF winning_pool = 0
             THEN Raised(self, ZeroDivisionError)
             ELSE Return(
                    IF self.outcome
                    THEN [self EXCEPT !.bettors[sender].yes_bets = 0]
                    ELSE [self EXCEPT !.bettors[sender].no_bets = 0],
                    payout(user_bet_on_winner, total_pool, winning_pool))

----------------------------------------------------------------------------
(* The three methods of the block that addWebDataAccess appends.  A Python  *)
(* dict is a record; a text the contract handles is                         *)
(* [valid, raw, kind, items]: valid says whether json.loads accepts it,     *)
(* kind and items are what json.loads then returns.  The web and the LLM    *)
(* are the environment: render and exec_prompt return [ok, ...] and raise   *)
(* Exception(message) when ok is FALSE.  gl.eq_principle_strict_eq and      *)
(* gl.eq_principle_prompt_comparative hand back what their task returned    *)
(* and let through what it raised.                                          *)

Modes == {"text", "html", "screenshot"}

\* json.dumps of a dict
Dumped(raw, dict) ==
    [valid |-> TRUE, raw |-> raw, kind |-> "dict", items |-> dict]

\* dict.update
Update(d, e) ==
    [k \in DOMAIN d \cup DOMAIN e |-> IF k \in DOMAIN e THEN e[k] ELSE d[k]]

InvalidMode(mode) ==
    "Invalid mode: " \o mode \o ". Use 'text', 'html', or 'screenshot'"

\* except Exception as e: return json.dumps({...})
FetchError(e, url, mode) ==
    Dumped("{\"error\": \"" \o e \o "\", \"url\": \"" \o url
              \o "\", \"mode\": \"" \o mode \o "\", \"status\": \"failed\"}",
           [error |-> e, url |-> url, mode |-> mode, status |-> "failed"])

web_fetch_task(url, mode, render, prompt) ==
    IF mode \notin Modes THEN FetchError(InvalidMode(mode), url, mode)
    ELSE IF ~render.ok THEN FetchError(render.message, url, mode)
    ELSE IF ~prompt.ok THEN FetchError(prompt.message, url, mode)
    ELSE prompt.text

fetch_web_data(url, mode, render, prompt) ==
    LET result_str == web_fetch_task(url, mode, render, prompt)
    IN  IF ~result_str.valid
        THEN Return("self",
                    [raw_response |-> result_str.raw,
                     url          |-> url,
                     mode         |-> mode,
                     status       |-> "json_parse_error",
                     error        |-> "Failed to parse LLM response as JSON"])
        ELSE IF result_str.kind # "dict"
        THEN Raised("self", "'" \o result_str.kind
                               \o "' object has no attribute 'update'")
        ELSE Return("self",
                    Update(result_str.items,
                           [url       |-> url,
                            mode      |-> mode,
                            timestamp |-> "placeholder_timestamp",
                            status    |-> IF "error" \notin DOMAIN result_str.items
                                          THEN "success" ELSE "error"]))

\* results of the loop over urls: a failed fetch is recorded, not raised
multi_source_results(urls, renders) ==
    [i \in 1..Len(urls) |->
        IF renders[i].ok
        THEN [url |-> urls[i], data |-> renders[i].data, status |-> "success"]
        ELSE [url |-> urls[i], error |-> renders[i].message,
              status |-> "failed"]]

fetch_multiple_sources(urls, renders, prompt) ==
    IF ~prompt.ok
    THEN Raised("self", prompt.message)
    ELSE IF prompt.text.valid
    THEN Return("self",
                [aggregated_result |-> prompt.text.items,
                 source_count      |-> Len(urls),
                 sources           |-> urls,
                 status            |-> "success"])
    ELSE Return("self",
                [raw_response |-> prompt.text.raw,
                 source_count |-> Len(urls),
                 sources      |-> urls,
                 status       |-> "json_parse_error",
                 error        |-> "Failed to parse aggregated response as JSON"])

fetch_with_comparative_consensus(url, render, prompt) ==
    IF ~render.ok THEN Raised("self", render.message)
    ELSE IF ~prompt.ok THEN Raised("self", prompt.message)
    ELSE IF prompt.text.valid
    THEN Return("self",
                [analysis          |-> prompt.text.items,
                 url               |-> url,
                 validation_method |-> "comparative_consensus",
                 tolerance         |-> "0.1",
                 status            |-> "success"])
    ELSE Return("self",
                [raw_response      |-> prompt.text.raw,
                 url               |-> url,
                 validation_method |-> "comparative_consensus",
                 status            |-> "json_parse_error",
                 error             |-> "Failed to parse consensus response as JSON"])

----------------------------------------------------------------------------
(* Market specification: the contract is deployed with a description, the   *)
(* resolution criteria and the web sources; then accounts send it           *)
(* transactions, one after the other.                                       *)

MarketCriteria ==
    {"Price above 100k USD",
     "Bitcoin price exceeds $100,000 USD on any major exchange."}

MarketSources == {<<>>, <<"https://api.coinbase.com">>}

Transaction(method, sender, value, prediction, r) ==
    /\ market' = r.self
    /\ call' = [method |-> method, sender |-> sender, value |-> value,
                prediction |-> prediction, before |-> market,
                raised |-> r.raised, exception |-> r.exception,
                returned |-> r.returned]
    /\ payouts' = IF method = "claim_winnings" /\ ~r.raised
                  THEN [payouts EXCEPT ![sender] =
                            [claims |-> @.claims + 1,
                             total |-> @.total + r.returned]]
                  ELSE payouts
    /\ UNCHANGED <<genVars, toolVars, webVars, handlerVars, callVars,
                   publishVars>>

MarketInit ==
    /\ op = "init"
    /\ arg = NoCall
    /\ out = Returned("")
    /\ applied = Fresh("")
    /\ tool = "init"
    /\ given = NoCall
    /\ params = NoCall
    /\ result = NoResult
    /\ \E c \in MarketCriteria, w \in MarketSources :
            market = PredictionMarket("Will Bitcoin reach 100k?", c, w)
    /\ call = NoCall
    /\ payouts = NothingPaid
    /\ fetched = NoCall
    /\ request = NoCall
    /\ invoked = "none"
    /\ received = <<>>
    /\ response = Envelope("", FALSE)
    /\ calls = <<>>
    /\ script = NotStarted

PlaceBet ==
    \E sender \in Addresses, amount \in 0..MaxAmount, prediction \in BOOLEAN :
        /\ market.total_yes_bets + market.total_no_bets + amount <= MaxPool
        /\ Transaction("place_bet", sender, amount, prediction,
                       place_bet(market, sender, amount, prediction))

ResolveMarket ==
    \E sender \in Addresses :
        Transaction("resolve_market", sender, 0, FALSE, resolve_market(market))

ClaimWinnings ==
    \E sender \in Addresses :
        Transaction("claim_winnings", sender, 0, FALSE,
                    claim_winnings(market, sender))

MarketNext ==
    \/ PlaceBet
    \/ ResolveMarket
    \/ ClaimWinnings

SpecMarket == MarketInit /\ [][MarketNext]_vars

----------------------------------------------------------------------------
(* Claims about the generated market contract, checked under SpecMarket     *)

Known(self, b) == b \in DOMAIN self.bettors

\* b's recorded bet on the winning side
WinningBet(self, b) ==
    IF self.outcome THEN self.bettors[b].yes_bets ELSE self.bettors[b].no_bets

\* the total bet on the winning side
WinningPool(self) ==
    IF self.outcome THEN self.total_yes_bets ELSE self.total_no_bets

\* C15: claim_winnings by b is rejected exactly when the market is
\* unresolved, b never bet, or b's bet on the winning side is zero; when it
\* succeeds it returns floor(w_b * (total_yes + total_no) / winning pool),
\* leaves b's winning bet at zero and both pool totals as they were.
C15_PayoutIsProportional ==
    (call # NoCall /\ call.method = "claim_winnings")
        => LET before == call.before
               b == call.sender
               refused == \/ ~before.resolved
                          \/ ~Known(before, b)
                          \/ WinningBet(before, b) = 0
           IN  /\ call.raised <=> refused
               /\ call.raised => market = before
               /\ ~call.raised
                    => /\ call.returned * WinningPool(before)
                            <= WinningBet(before, b)
                                 * (before.total_yes_bets + before.total_no_bets)
                       /\ (call.returned + 1) * WinningPool(before)
                            > WinningBet(before, b)
                                 * (before.total_yes_bets + before.total_no_bets)
                       /\ WinningBet(market, b) = 0
                       /\ market.total_yes_bets = before.total_yes_bets
                       /\ market.total_no_bets = before.total_no_bets

\* a claim is paid where the quotient is not a whole number
C15_Witness ==
    /\ call # NoCall
    /\ call.method = "claim_winnings"
    /\ ~call.raised
    /\ (WinningBet(call.before, call.sender)
          * (call.before.total_yes_bets + call.before.total_no_bets))
            % WinningPool(call.before) # 0

\* C27: claim_winnings never divides by zero: after any sequence of place_bet
\* with non-negative amounts, resolve_market and claim_winnings, no
\* claim_winnings ends with a ZeroDivisionError, because a bettor's bet on a
\* side is at most the total of that side, so that a caller who passes the
\* check of its winning-side bet finds a positive winning pool.
C27_NoDivisionByZero ==
    /\ \A a \in DOMAIN market.bettors :
            /\ market.bettors[a].yes_bets <= market.total_yes_bets
            /\ market.bettors[a].no_bets <= market.total_no_bets
    /\ (call # NoCall /\ call.method = "claim_winnings")
            => /\ call.exception # ZeroDivisionError
               /\ ~call.raised =>
                    (IF call.before.outcome THEN call.before.total_yes_bets
                     ELSE call.before.total_no_bets) > 0

\* a claim_winnings refused for a caller who bet only on the losing side
\* while nothing was bet on the winning side
C27_Witness ==
    /\ call # NoCall
    /\ call.method = "claim_winnings"
    /\ call.before.total_yes_bets = 0
    /\ call.before.total_no_bets > 0
    /\ call.exception = "No winning bets to claim"

\* the sum of what claim_winnings has returned so far
RECURSIVE PaidTo(_)
PaidTo(senders) ==
    IF senders = {} THEN 0
    ELSE LET a == CHOOSE x \in senders : TRUE
         IN  payouts[a].total + PaidTo(senders \ {a})

\* C28: payouts are conserved: over any sequence of place_bet,
\* resolve_market and claim_winnings by any senders, the sum of the payouts
\* that successful claim_winnings calls returned is at most
\* total_yes_bets + total_no_bets, and each sender's claim succeeds at most
\* once.
C28_PayoutsConserved ==
    /\ PaidTo(Addresses) <= market.total_yes_bets + market.total_no_bets
    /\ \A a \in Addresses : payouts[a].claims <= 1

\* two winners have claimed a pool that holds losing bets as well
C28_Witness ==
    /\ \A a \in Addresses : payouts[a].claims = 1
    /\ market.total_no_bets > 0
    /\ PaidTo(Addresses) > market.total_yes_bets

----------------------------------------------------------------------------
(* Web access specification: an account calls one of the three methods;     *)
(* the web answers or fails for each URL, the LLM answers with a JSON       *)
(* object, with another JSON value, with text that is no JSON, or fails.    *)

MaxUrls == 2

FetchUrls == {"https://api.example.com/data", "https://down.example.com"}

FetchModes == Modes \cup {"pdf"}

RenderOutcomes ==
    {[ok |-> TRUE, data |-> "BTC 101000", message |-> ""],
     [ok |-> FALSE, data |-> "", message |-> "Connection refused"]}

PromptOutcomes ==
    {[ok |-> TRUE, message |-> "",
      text |-> Dumped("{\"price\": \"101000\"}", [price |-> "101000"])],
     [ok |-> TRUE, message |-> "",
      text |-> Dumped("{\"error\": \"no price found\"}",
                      [error |-> "no price found"])],
     [ok |-> TRUE, message |-> "",
      text |-> [valid |-> TRUE, raw |-> "[101000]", kind |-> "list",
                items |-> [length |-> "1"]]],
     [ok |-> TRUE, message |-> "",
      text |-> [valid |-> FALSE, raw |-> "The price is 101000.",
                kind |-> "none", items |-> [length |-> "0"]]],
     [ok |-> FALSE, message |-> "LLM request timed out",
      text |-> [valid |-> FALSE, raw |-> "", kind |-> "none",
                items |-> [length |-> "0"]]]}

UrlLists == UNION {[1..n -> FetchUrls] : n \in 0..MaxUrls}

\* the method ran with these inputs in this environment and ended with r
Fetched(method, urls, mode, renders, prompt, r) ==
    /\ fetched = NoCall
    /\ fetched' = [method |-> method, urls |-> urls, mode |-> mode,
                   renders |-> renders, prompt |-> prompt,
                   raised |-> r.raised, exception |-> r.exception,
                   returned |-> r.returned]
    /\ UNCHANGED <<genVars, toolVars, marketVars, handlerVars, callVars,
                 publishVars>>

WebInit == GenInit

FetchWebData ==
    \E url \in FetchUrls, mode \in FetchModes,
       render \in RenderOutcomes, prompt \in PromptOutcomes :
        Fetched("fetch_web_data", <<url>>, mode, <<render>>, prompt,
                fetch_web_data(url, mode, render, prompt))

FetchMultipleSources ==
    \E urls \in UrlLists, prompt \in PromptOutcomes :
        \E renders \in [1..Len(urls) -> RenderOutcomes] :
            Fetched("fetch_multiple_sources", urls, "text", renders, prompt,
                    fetch_multiple_sources(urls, renders, prompt))

FetchWithComparativeConsensus ==
    \E url \in FetchUrls, render \in RenderOutcomes, prompt \in PromptOutcomes :
        Fetched("fetch_with_comparative_consensus", <<url>>, "text",
                <<render>>, prompt,
                fetch_with_comparative_consensus(url, render, prompt))

\* the caller takes the result of the transaction
TakeFetched ==
    /\ fetched # NoCall
    /\ fetched' = NoCall
    /\ UNCHANGED <<genVars, toolVars, marketVars, handlerVars, callVars,
                 publishVars>>

WebNext ==
    \/ FetchWebData
    \/ FetchMultipleSources
    \/ FetchWithComparativeConsensus
    \/ TakeFetched

SpecWeb == WebInit /\ [][WebNext]_vars

----------------------------------------------------------------------------
(* Claims about the generated web access methods, checked under SpecWeb     *)

\* the fetch or the processing step of the call failed
FetchFailed ==
    \/ fetched.method = "fetch_web_data" /\ fetched.mode \notin Modes
    \/ \E i \in 1..Len(fetched.renders) : ~fetched.renders[i].ok
    \/ ~fetched.prompt.ok

\* C16: in each of the three web access methods a failure of the fetch or
\* of the processing step, an invalid mode of fetch_web_data included,
\* raises nothing: the method returns a dict that carries error, url and
\* mode, and whose status is "failed".
C16_FailuresReturnEnvelope ==
    (fetched # NoCall /\ FetchFailed)
        => /\ ~fetched.raised
           /\ {"error", "url", "mode", "status"} \subseteq DOMAIN fetched.returned
           /\ fetched.returned.status = "failed"

----------------------------------------------------------------------------
(* Claims about the caller's parameter object, checked under SpecTools      *)

\* C21: after a call of a Tool Layer function, whether it succeeded or
\* failed, the caller's parameter object has in every field, web_sources
\* included, the value it had before the call.
C21_ParamsNotModified ==
    tool # "init" => params = given

\* the contract code between the fences of a report
ReportedCode(report) ==
    LET first == IndexFrom(report, "~~~python\n", 1) + Len("~~~python\n")
        last == IndexFrom(report, "\n~~~\n\n## Usage Notes", first) - 1
    IN  SubSeq(report, first, last)

\* generateIntelligentContract was called with a template_type that is
\* present and not basic, and returned a report
NamedTemplateReport ==
    /\ tool = "GenLayerTools.generateIntelligentContract"
    /\ ~IsMissing(given)
    /\ ~result.rejected
    /\ ~result.isError
    /\ Truthy(given.template_type)
    /\ given.template_type # "basic"

\* C22: named templates do not compose with the builder or the augmenters:
\* when generateIntelligentContract is called with a template_type that is
\* present and not basic, the code in its report is the code
\* generateAdvancedContractTemplate makes of the tag, the name and no
\* parameters, whatever use_llm, web_access and storage_fields are: it has
\* no LLM block, no web block and no field of the caller.
C22_TemplatesDoNotCompose ==
    NamedTemplateReport =>
        LET code == ReportedCode(result.content)
            fields == OrEmpty(given.storage_fields)
        IN  /\ code = generateAdvancedContractTemplate(
                          given.template_type, given.contract_name, <<>>).value
            /\ ~Contains(code, "def process_with_llm(")
            /\ ~Contains(code, "def fetch_web_data(")
            /\ \A i \in 1..Len(fields) :
                   ~Contains(code, "    " \o fields[i].name \o ": ")

\* a named template was asked for together with the LLM block, the web
\* block and a storage field
C22_Witness ==
    /\ NamedTemplateReport
    /\ given.template_type \in NamedTemplates
    /\ given.use_llm
    /\ given.web_access
    /\ Len(OrEmpty(given.storage_fields)) > 0

\* the Features section of a report of generateIntelligentContract
Features(report) ==
    LET first == IndexFrom(report, "\n## Features\n", 1)
        last == IndexFrom(report, "\n\n## Contract Code\n", first)
    IN  SubSeq(report, first, last)

\* the number after "- Storage Fields: " in the Features section, as text
ReportedFieldCount(features) ==
    LET first == IndexFrom(features, "- Storage Fields: ", 1)
                    + Len("- Storage Fields: ")
        last == IndexFrom(features, "\n", first) - 1
    IN  SubSeq(features, first, last)

\* the number of storage field declarations in a contract: the lines of the
\* class body above the constructor that read four spaces, a name, a colon
\* and a type
DeclarationCount(code) ==
    LET first == IndexFrom(code, "(gl.Contract):\n", 1)
                    + Len("(gl.Contract):\n")
        last == IndexFrom(code, "    def __init__(", first) - 1
        body == SubSeq(code, first, last)
        starts == {1} \cup {i + 1 : i \in {j \in 1..(Len(body) - 1) :
                                             CharAt(body, j) = "\n"}}
        IsDeclaration(s) ==
            /\ s + 5 <= Len(body)
            /\ SubSeq(body, s, s + 3) = "    "
            /\ LET colon == IndexFrom(body, ": ", s + 4)
               IN  /\ colon > s + 4
                   /\ \A k \in (s + 4)..(colon - 1) :
                          IsWordChar(CharAt(body, k))
    IN  Cardinality({s \in starts : IsDeclaration(s)})

\* generateIntelligentContract returned a report
ContractReport ==
    /\ tool = "GenLayerTools.generateIntelligentContract"
    /\ ~IsMissing(given)
    /\ ~result.rejected
    /\ ~result.isError

\* the feature summary of the report agrees with the code in the report
SummaryMatchesCode(report) ==
    LET features == Features(report)
        code == ReportedCode(report)
        llm == IndexFrom(code, "def process_with_llm(", 1)
        web == IndexFrom(code, "def fetch_web_data(", 1)
    IN  /\ Contains(features, "- LLM Integration: Yes\n") <=> llm > 0
        /\ Contains(features, "- Web Access: Yes\n") <=> web > 0
        /\ ReportedFieldCount(features) = ToString(DeclarationCount(code))
        /\ (llm > 0 /\ web > 0) => llm < web

\* C30 as stated: the feature summary in the report of
\* generateIntelligentContract matches the generated code: LLM Integration
\* is Yes exactly when the code has the LLM block, Web Access is Yes exactly
\* when it has the web block, the storage-field count is the number of field
\* declarations in the code, and the LLM block precedes the web block.
C30_SummaryMatchesCode ==
    ContractReport => SummaryMatchesCode(result.content)

\* C30, amended: the feature summary echoes the request, and it matches the
\* generated code when template_type is absent, empty or basic; for any
\* other template_type the code has neither block whatever the summary says.
C30_SummaryEchoesRequest ==
    ContractReport =>
        LET features == Features(result.content)
            code == ReportedCode(result.content)
        IN  /\ Contains(features, "- LLM Integration: Yes\n") <=> given.use_llm
            /\ Contains(features, "- Web Access: Yes\n") <=> given.web_access
            /\ ReportedFieldCount(features)
                 = ToString(Len(OrEmpty(given.storage_fields)))
            /\ IF Truthy(given.template_type) /\ given.template_type # "basic"
               THEN /\ ~Contains(code, "def process_with_llm(")
                    /\ ~Contains(code, "def fetch_web_data(")
               ELSE SummaryMatchesCode(result.content)

\* a report of the builder with both blocks and a storage field
C30_Witness ==
    /\ ContractReport
    /\ ~Truthy(given.template_type)
    /\ given.use_llm
    /\ given.web_access
    /\ Len(OrEmpty(given.storage_fields)) > 0
    /\ SummaryMatchesCode(result.content)

----------------------------------------------------------------------------
(* Claims about validation and dispatch in handleToolCall, checked under    *)
(* SpecHandlers                                                             *)

\* the registry handler was asked for a tool that toolSchemas holds
RegistryRequest ==
    /\ request # NoCall
    /\ request.handler = "registerGenLayerTools"
    /\ request.name \in ToolNames

\* schema.parse(args) returned
SchemaPassed == ~schema_parse(request.name, request.arguments).threw

\* what validateToolInput reports of the parsed arguments
SecurityReport ==
    validateToolInput(request.name,
                      schema_parse(request.name, request.arguments).value,
                      request.production)

\* the number of warnings does not decide whether the function is called
WarningsDoNotDecide ==
    (RegistryRequest /\ toolFunctions[request.name] \in GenLayerToolsMethods)
        => (invoked # "none"
              <=> (SchemaPassed /\ Len(SecurityReport.errors) = 0))

\* C23: security warnings never block a call: in handleToolCall the Tool
\* Layer function is invoked exactly when schema parsing succeeded and
\* validateToolInput reported no errors, whatever the number of warnings;
\* validateToolInput returns isValid true and a sanitizedParams object
\* exactly when its errors list is empty.
C23_WarningsNeverBlock ==
    RegistryRequest =>
        LET v == validateToolInput(request.name, request.arguments,
                                   request.production)
        IN  /\ invoked # "none" <=> (SchemaPassed /\ Len(v.errors) = 0)
            /\ (v.isValid /\ v.sanitizedParams.defined) <=> Len(v.errors) = 0

\* C24: handleToolCall validates the schema, then validates security, then
\* dispatches: no Tool Layer function is invoked for a request that failed
\* schema parsing or security validation, at most one is invoked per
\* request, and it receives the sanitized parameters, not the arguments as
\* they were sent; a request that fails both validations is answered with
\* the schema's error.
C24_ValidateThenDispatch ==
    RegistryRequest =>
        LET passed == SchemaPassed
            report == SecurityReport
        IN  /\ Len(received) <= 1
            /\ invoked # "none" <=> Len(received) = 1
            /\ Len(received) = 1
                  => /\ passed
                     /\ report.isValid
                     /\ received[1] = report.sanitizedParams.value
                     /\ invoked = toolFunctions[request.name]
            /\ ~passed
                  => startsWith(response.content[1].text,
                                "Validation Error: ")
            /\ (passed /\ ~report.isValid)
                  => startsWith(response.content[1].text,
                                "Security Validation Error: ")

\* a function was called with parameters that differ from the arguments
\* sent, for a request that also drew warnings
C24_Witness ==
    /\ RegistryRequest
    /\ invoked # "none"
    /\ received[1] # request.arguments
    /\ Len(SecurityReport.warnings) > 0

\* the tools the handler's server lists
Advertised ==
    IF request.handler = "GenLayerMCPServer" THEN serverTools
    ELSE toolDefinitions

\* C25: every tool that a list-tools handler advertises is callable: the
\* call-tool dispatch of the same server has a branch for its name that
\* routes it to a Tool Layer function, so that a request for it is answered
\* neither with an Unknown tool nor with an Unhandled tool error, nor with
\* the error of a function that does not exist.
C25_AdvertisedToolsAreCallable ==
    (request # NoCall /\ request.name \in Advertised)
        => LET text == response.content[1].text
           IN  /\ ~startsWith(text, "Error: Unknown tool")
               /\ ~startsWith(text, "Error: Unhandled tool")
               /\ ~endsWith(text, " is not a function")

----------------------------------------------------------------------------
(* Publish script specification: each run finds some package.json on disk,  *)
(* goes through the statements of the script and ends with an exit code.    *)

Statement(pc, next) ==
    /\ script.pc = pc
    /\ script' = next
    /\ UNCHANGED <<genVars, toolVars, marketVars, webVars, handlerVars,
                   callVars>>

\* node starts the script with the package.json that is on disk
Launch(file) ==
    /\ script.pc \in {"not started", "exited"}
    /\ script' = [NotStarted EXCEPT !.pc = "read", !.file = file,
                                    !.started = file]
    /\ UNCHANGED <<genVars, toolVars, marketVars, webVars, handlerVars,
                   callVars>>

\* const packageJson = JSON.parse(fs.readFileSync('package.json', 'utf8'))
ReadPackageJson ==
    Statement("read",
              [script EXCEPT !.pc = "backup",
                             !.packageJson = Some(JSONparse(script.file))])

\* const originalPackageJson = { ...packageJson }
CreateBackup ==
    Statement("backup",
              [script EXCEPT !.pc = "update",
                             !.originalPackageJson =
                                 Some(Spread(script.packageJson.value))])

\* packageJson.publishConfig = { registry: ..., access: 'public' }
UpdatePackageJson ==
    Statement("update",
              [script EXCEPT !.pc = "write",
                             !.packageJson.value.publishConfig =
                                 GitHubPublishConfig])

\* fs.writeFileSync('package.json', JSON.stringify(packageJson, null, 2))
WriteModified ==
    Statement("write",
              [script EXCEPT !.pc = "publish",
                             !.file = JSONstringify(script.packageJson.value)])

\* try { execSync('npm publish --ignore-scripts', ...) }: it returns
Published ==
    Statement("publish",
              [script EXCEPT !.pc = "finally", !.published = TRUE])

\* try { execSync('npm publish --ignore-scripts', ...) }: it throws
PublishThrows(message) ==
    Statement("publish", [script EXCEPT !.pc = "catch", !.error = message])

\* catch (error) { ... }: process.exit(1) ends the process at once
Catch(s) ==
    IF Contains(s.error, "version already exists")
    THEN [s EXCEPT !.pc = "finally"]
    ELSE [s EXCEPT !.pc = "exited", !.exitCode = 1]

CatchError == Statement("catch", Catch(script))

\* finally { fs.writeFileSync('package.json',
\*           JSON.stringify(originalPackageJson, null, 2)) }
Finally(s) ==
    [s EXCEPT !.pc = "exited",
              !.file = JSONstringify(s.originalPackageJson.value),
              !.exitCode = IF s.exitCode = -1 THEN 0 ELSE s.exitCode]

RestoreOriginal == Statement("finally", Finally(script))

PublishInit == GenInit

PublishNext ==
    \/ \E file \in PackageFiles : Launch(file)
    \/ ReadPackageJson
    \/ CreateBackup
    \/ UpdatePackageJson
    \/ WriteModified
    \/ Published
    \/ \E message \in PublishErrors : PublishThrows(message)
    \/ CatchError
    \/ RestoreOriginal

SpecPublish == PublishInit /\ [][PublishNext]_vars

----------------------------------------------------------------------------
(* Claims about the publish script, checked under SpecPublish               *)

\* C29: the publish script always restores package.json: when a run has
\* ended, whether the publish succeeded, was skipped because the version
\* already exists or failed for another reason, package.json denotes the
\* object it denoted when the run started.
C29_PackageJsonRestored ==
    script.pc = "exited" => JSONparse(script.file) = JSONparse(script.started)

\* the runs that reach the finally block do restore the object
RestoredWhenFinallyRuns ==
    (script.pc = "exited" /\ script.exitCode = 0)
        => JSONparse(script.file) = JSONparse(script.started)

----------------------------------------------------------------------------
(* Claims about the advertised selector values, checked under SpecTools     *)

\* the selector property of the last call, when the call was made with an
\* object for one of the six functions that select a guide
SelectorOfCall ==
    {s \in DOMAIN selectorEnums :
        /\ tool = selectorFunctions[s]
        /\ ~IsMissing(given)}

\* C26: every selector value advertised in a tool's input-schema enum is
\* accepted by the implementation: a call of the function of concept,
\* type_category, storage_topic, debug_topic, integration_type or
\* script_type with a value of its enum resolves to a result that is not
\* an error.
C26_AdvertisedValuesAccepted ==
    \A s \in SelectorOfCall :
        given[s] \in selectorEnums[s]
            => /\ ~result.rejected
               /\ ~result.isError

\* an advertised value is accepted exactly when it is a key of the
\* function's object literal, as every value of script_type is
KeysAccepted ==
    \A s \in SelectorOfCall :
        LET keys == [concept |-> Concepts,
                     type_category |-> DOMAIN typeExplanations,
                     storage_topic |-> DOMAIN storageGuides,
                     script_type |-> selectorEnums.script_type,
                     debug_topic |-> DOMAIN debugGuides,
                     integration_type |-> DOMAIN integrations]
        IN  given[s] \in selectorEnums[s]
                => (given[s] \in keys[s]
                        <=> (~result.rejected /\ ~result.isError))

====
